---- MODULE Spec2Model ----
(***************************************************************************)
(* ai-ready: the dependency-risk briefing engine (src/src/analyzer.ts,     *)
(* second variant, lines 308-762) and the quality-score engine             *)
(* (src/src/core/analyzer.ts).                                             *)
(*                                                                         *)
(* Nine specifications share the module's variables:                      *)
(*   SpecCalculateRisk  calculateRisk as a pure function of its argument   *)
(*   SpecAnalyzeFile    analyzeFile of the score engine on one file        *)
(*   Spec               one analyzeFiles run of the risk engine, cut at    *)
(*                      its await points                                   *)
(*   SpecAnalyzeDirectory  analyzeDirectory of the score engine on a file  *)
(*                      list                                               *)
(*   SpecMain           main of the score-policy CLI (src/src/cli.ts)      *)
(*   SpecGenerateBriefing, SpecGenerateActionItems  the two text           *)
(*                      generators of the risk engine as pure functions    *)
(*   SpecScoreCommentDensity  scoreCommentDensity as a pure function       *)
(*   SpecOverlap        two analyzeFiles runs on one project root          *)
(***************************************************************************)
EXTENDS Integers, Sequences, FiniteSets, TLC

VARIABLES
    riskArg,      \* calculateRisk: the analysis record passed in
    riskRet,      \* calculateRisk: the level returned, "none" before the call
    fileArg,      \* analyzeFile: the file on disk (text, parse facts, test files)
    fileRet,      \* analyzeFile: the FileScore returned, NoScore before the call
    world,        \* analyzeFiles: the project on disk and its import graph
    files,        \* analyzeFiles: the input file list
    pc,           \* analyzeFiles: position of the run
    idx,          \* analyzeFiles: index of the file / analysis being processed
    cur,          \* analyzeFiles: locals of the current pass-1 iteration
    analyses,     \* analyzeFiles: the analyses array
    madgeCache,   \* module-level Map projectRoot -> MadgeResult
    madgeCalls,   \* number of madge(projectRoot) invocations of the run
    result,       \* analyzeFiles: the AnalysisResult returned, or the error thrown
    dirArg,       \* analyzeDirectory: the files of the directory, in traversal order
    dirRet,       \* analyzeDirectory: the AnalysisResult returned, NoScore before the call
    mainArg,      \* main: the parsed options and the files scanDirectory finds
    mainRet,      \* main: the exit code and the reported result, NoScore before the call
    briefArg,     \* generateBriefing: the analysis passed in
    briefRet,     \* generateBriefing: the fragments returned, <<>> before the call
    itemsArg,     \* generateActionItems: the analyses passed in
    itemsRet,     \* generateActionItems: the items returned, NoItems before the call
    densityArg,   \* scoreCommentDensity: two (commentLines, totalLines) arguments
    densityRet,   \* scoreCommentDensity: the two scores returned, <<>> before the calls
    runs,         \* overlapping analyzeFiles runs: the locals of each run
    sharedCache   \* overlapping analyzeFiles runs: the module-level madgeCache

riskVars == <<riskArg, riskRet>>
scoreVars == <<fileArg, fileRet>>
runVars == <<world, files, pc, idx, cur, analyses, madgeCache, madgeCalls, result>>
dirVars == <<dirArg, dirRet>>
mainVars == <<mainArg, mainRet>>
textVars == <<briefArg, briefRet, itemsArg, itemsRet>>
densityVars == <<densityArg, densityRet>>
overlapVars == <<runs, sharedCache>>
vars == <<riskArg, riskRet, fileArg, fileRet, world, files, pc, idx, cur, analyses,
          madgeCache, madgeCalls, result, dirArg, dirRet, mainArg, mainRet,
          briefArg, briefRet, itemsArg, itemsRet, densityArg, densityRet, runs,
          sharedCache>>

(***************************************************************************)
(* Generic helpers                                                         *)
(***************************************************************************)
Range(s) == {s[i] : i \in 1..Len(s)}

\* [name, ..., name] of length n: a list whose elements do not matter
Filled(n, x) == [i \in 1..n |-> x]

(***************************************************************************)
(* calculateRisk, fan-in aware (src/src/analyzer.ts:597-616)               *)
(***************************************************************************)
calculateRiskHighAt5(analysis) ==
    IF \/ Len(analysis.circular_deps) > 0
       \/ (analysis.incoming_deps >= 5 /\ ~analysis.test_coverage.has_test_file)
       \/ (analysis.incoming_deps > 3 /\ Len(analysis.downstream_untested) > 2)
       \/ Len(analysis.global_mutations) > 2
       \/ analysis.missing_return_types > 5
    THEN "high"
    ELSE IF \/ (analysis.incoming_deps > 2 /\ ~analysis.test_coverage.has_test_file)
            \/ Len(analysis.global_mutations) > 0
            \/ analysis.missing_return_types > 2
            \/ ~analysis.test_coverage.has_test_file
         THEN "medium"
         ELSE "low"

\* the fan-in rule for untested files applied from zero importers on
calculateRiskFanInFromZero(analysis) ==
    IF \/ Len(analysis.circular_deps) > 0
       \/ (analysis.incoming_deps >= 0 /\ ~analysis.test_coverage.has_test_file)
       \/ (analysis.incoming_deps > 3 /\ Len(analysis.downstream_untested) > 2)
       \/ Len(analysis.global_mutations) > 2
       \/ analysis.missing_return_types > 5
    THEN "high"
    ELSE IF \/ (analysis.incoming_deps > 2 /\ ~analysis.test_coverage.has_test_file)
            \/ Len(analysis.global_mutations) > 0
            \/ analysis.missing_return_types > 2
            \/ ~analysis.test_coverage.has_test_file
         THEN "medium"
         ELSE "low"

\* any untested importer counted as a medium-risk condition
calculateRiskDownstreamMedium(analysis) ==
    IF \/ Len(analysis.circular_deps) > 0
       \/ (analysis.incoming_deps > 5 /\ ~analysis.test_coverage.has_test_file)
       \/ (analysis.incoming_deps > 3 /\ Len(analysis.downstream_untested) > 2)
       \/ Len(analysis.global_mutations) > 2
       \/ analysis.missing_return_types > 5
    THEN "high"
    ELSE IF \/ (analysis.incoming_deps > 2 /\ ~analysis.test_coverage.has_test_file)
            \/ Len(analysis.downstream_untested) > 0
            \/ Len(analysis.global_mutations) > 0
            \/ analysis.missing_return_types > 2
            \/ ~analysis.test_coverage.has_test_file
         THEN "medium"
         ELSE "low"

\* calculateRisk of the first variant of the file (src/src/analyzer.ts:225-241)
calculateRiskOriginal(analysis) ==
    IF \/ Len(analysis.circular_deps) > 0
       \/ Len(analysis.global_mutations) > 2
       \/ analysis.missing_return_types > 5
    THEN "high"
    ELSE IF \/ Len(analysis.global_mutations) > 0
            \/ analysis.missing_return_types > 2
            \/ ~analysis.test_coverage.has_test_file
         THEN "medium"
         ELSE "low"

calculateRisk(analysis) ==
    IF \/ Len(analysis.circular_deps) > 0
       \/ (analysis.incoming_deps > 5 /\ ~analysis.test_coverage.has_test_file)
       \/ (analysis.incoming_deps > 3 /\ Len(analysis.downstream_untested) > 2)
       \/ Len(analysis.global_mutations) > 2
       \/ analysis.missing_return_types > 5
    THEN "high"
    ELSE IF \/ (analysis.incoming_deps > 2 /\ ~analysis.test_coverage.has_test_file)
            \/ Len(analysis.global_mutations) > 0
            \/ analysis.missing_return_types > 2
            \/ ~analysis.test_coverage.has_test_file
         THEN "medium"
         ELSE "low"

(***************************************************************************)
(* Idle values of the groups of variables                                  *)
(***************************************************************************)
NoArg == [none |-> TRUE]
NoScore == [none |-> TRUE]

RiskIdle == riskArg = NoArg /\ riskRet = "none"
ScoreIdle == fileArg = NoArg /\ fileRet = NoScore
DirIdle == dirArg = NoArg /\ dirRet = NoScore
MainIdle == mainArg = NoArg /\ mainRet = NoScore
NoItems == <<[none |-> TRUE]>>
BriefIdle == briefArg = NoArg /\ briefRet = <<>>
ItemsIdle == itemsArg = <<>> /\ itemsRet = NoItems
TextIdle == BriefIdle /\ ItemsIdle
DensityIdle == densityArg = <<>> /\ densityRet = <<>>
OverlapIdle == runs = <<>> /\ sharedCache = <<>>
RunIdle ==
    /\ world = NoArg
    /\ files = <<>>
    /\ pc = "off"
    /\ idx = 0
    /\ cur = NoArg
    /\ analyses = <<>>
    /\ madgeCache = <<>>
    /\ madgeCalls = 0
    /\ result = NoArg

(***************************************************************************)
(* SpecCalculateRisk: calculateRisk on every argument within the bounds    *)
(***************************************************************************)
MaxCircularDeps == 1
MaxIncomingDeps == 7
MaxDownstreamUntested == 4
MaxGlobalMutations == 4
MaxMissingReturnTypes == 7

RiskArgs ==
    [ circular_deps        : {Filled(n, "dep.ts") : n \in 0..MaxCircularDeps},
      incoming_deps        : 0..MaxIncomingDeps,
      downstream_untested  : {Filled(n, "imp.ts") : n \in 0..MaxDownstreamUntested},
      global_mutations     : {Filled(n, "g") : n \in 0..MaxGlobalMutations},
      missing_return_types : 0..MaxMissingReturnTypes,
      test_coverage        : [has_test_file : BOOLEAN, assertion_count : {0}] ]

InitCalculateRisk ==
    /\ riskArg \in RiskArgs
    /\ riskRet = "none"
    /\ ScoreIdle
    /\ RunIdle
    /\ DirIdle
    /\ MainIdle
    /\ TextIdle
    /\ DensityIdle
    /\ OverlapIdle

CallCalculateRisk ==
    /\ riskRet = "none"
    /\ riskRet' = calculateRisk(riskArg)
    /\ UNCHANGED <<riskArg, scoreVars, runVars, dirVars, mainVars, textVars, densityVars, overlapVars>>

NextCalculateRisk == CallCalculateRisk

SpecCalculateRisk == InitCalculateRisk /\ [][NextCalculateRisk]_vars

\* C1: calculateRisk is the first-true-wins decision table: high iff
\* circular_deps is non-empty, or incoming_deps > 5 with no own test file, or
\* incoming_deps > 3 with more than 2 downstream_untested, or more than 2
\* global mutations, or missing_return_types > 5; otherwise medium iff there is
\* a global mutation, or missing_return_types > 2, or no own test file;
\* otherwise low.
C1_IsHigh ==
    \/ riskArg.circular_deps # <<>>
    \/ (riskArg.incoming_deps >= 6 /\ riskArg.test_coverage.has_test_file = FALSE)
    \/ (riskArg.incoming_deps >= 4 /\ Len(riskArg.downstream_untested) >= 3)
    \/ Len(riskArg.global_mutations) >= 3
    \/ riskArg.missing_return_types >= 6

C1_IsMedium ==
    \/ Len(riskArg.global_mutations) >= 1
    \/ riskArg.missing_return_types >= 3
    \/ riskArg.test_coverage.has_test_file = FALSE

C1_DecisionTable ==
    riskRet # "none" =>
        /\ (riskRet = "high") <=> C1_IsHigh
        /\ (riskRet = "medium") <=> (~C1_IsHigh /\ C1_IsMedium)
        /\ (riskRet = "low") <=> (~C1_IsHigh /\ ~C1_IsMedium)

\* the rule "incoming_deps > 5 and no own test file" alone decides: 6 importers,
\* no test file, nothing else
C1_Witness ==
    /\ riskRet = "high"
    /\ riskArg.incoming_deps = 6
    /\ ~riskArg.test_coverage.has_test_file
    /\ riskArg.circular_deps = <<>>
    /\ riskArg.downstream_untested = <<>>
    /\ riskArg.global_mutations = <<>>
    /\ riskArg.missing_return_types = 0

(***************************************************************************)
(* The score engine (src/src/core/analyzer.ts)                             *)
(*                                                                         *)
(* A file's text is kept as the number of its lines of each kind: lines    *)
(* holding only whitespace, lines the adapter counts as imports, lines it  *)
(* counts as comments, and other lines.  "".split("\n") has one element,   *)
(* so every text has at least one line.  The adapter's AST parse is the    *)
(* external parser: its outcome (the functions' line counts, or a parse    *)
(* error) is part of the input: ast = [ok, functions].                     *)
(***************************************************************************)
totalLinesOf(code) == code.ws + code.imports + code.comments + code.other

\* code.trim() === ""  (core/analyzer.ts:118): no line holds anything but whitespace
TrimIsEmpty(code) == code.imports + code.comments + code.other = 0

\* a parser that answers a parse failure with empty facts
parseSourceEmptyOnFailure(code, ast) ==
    IF ast.ok
    THEN [ functions |-> ast.functions, imports |-> code.imports,
           commentLines |-> code.comments, totalLines |-> totalLinesOf(code) ]
    ELSE [ functions |-> <<>>, imports |-> 0, commentLines |-> 0, totalLines |-> 0 ]

\* parseTypeScript / parseJavaScript (adapters/javascript.ts:11-90, 101-152)
parseSource(code, ast) ==
    [ functions    |-> IF ast.ok THEN ast.functions ELSE <<>>,
      imports      |-> code.imports,
      commentLines |-> code.comments,
      totalLines   |-> totalLinesOf(code) ]

RECURSIVE SumSeq(_)
SumSeq(s) == IF s = <<>> THEN 0 ELSE Head(s) + SumSeq(Tail(s))

\* the bands of scoreFunctionLength closed at their lower ends
scoreFunctionLengthInclusive(sumLines, count) ==
    IF sumLines >= 50 * count THEN 0
    ELSE IF sumLines >= 30 * count THEN 40
    ELSE IF sumLines >= 20 * count THEN 70
    ELSE 100

\* scoreFunctionLength(avgLines) with avgLines = sumLines / count, count > 0
scoreFunctionLength(sumLines, count) ==
    IF sumLines > 50 * count THEN 0
    ELSE IF sumLines > 30 * count THEN 40
    ELSE IF sumLines > 20 * count THEN 70
    ELSE 100

\* the bands of scoreCoupling closed at their lower ends
scoreCouplingInclusive(imports) ==
    IF imports >= 8 THEN 0
    ELSE IF imports >= 5 THEN 40
    ELSE IF imports >= 3 THEN 70
    ELSE 100

scoreCoupling(imports) ==
    IF imports > 8 THEN 0
    ELSE IF imports > 5 THEN 40
    ELSE IF imports > 3 THEN 70
    ELSE 100

\* A path: the directory's segments and the file name <<base, tag, ext>>,
\* e.g. dir/__tests__/m.test.ts is [dir |-> dir \o <<"__tests__">>, name |-> <<"m","test",".ts">>]
PathOf(dir, base, tag, ext) == [dir |-> dir, name |-> <<base, tag, ext>>]

DirName(dir) == IF dir = <<>> THEN <<>> ELSE SubSeq(dir, 1, Len(dir) - 1)
BaseName(dir) == IF dir = <<>> THEN "" ELSE dir[Len(dir)]

\* the patterns of scoreTestCoverage, in the order it tries them
TestPatterns(file) ==
    LET dir == file.dir
        base == file.base
        ext == file.ext
        parentDir == DirName(dir)
        relDir == BaseName(dir)
    IN  << PathOf(dir, base, "test", ext),
           PathOf(dir, base, "spec", ext),
           PathOf(dir \o <<"__tests__">>, base, "test", ext),
           PathOf(dir \o <<"__tests__">>, base, "spec", ext),
           PathOf(parentDir \o <<"tests">>, base, "test", ext),
           PathOf(parentDir \o <<"test">>, base, "test", ext),
           PathOf(parentDir \o <<"tests", relDir>>, base, "test", ext),
           PathOf(parentDir \o <<"test", relDir>>, base, "test", ext) >>

scoreTestCoverage(file, disk) ==
    IF \E i \in 1..Len(TestPatterns(file)) : TestPatterns(file)[i] \in disk
    THEN 100 ELSE 0

\* the bands of scoreCommentDensity closed at their lower ends
scoreCommentDensityInclusive(commentLines, totalLines) ==
    IF totalLines = 0 THEN 100
    ELSE IF 10 * commentLines >= totalLines THEN 100
    ELSE IF 20 * commentLines >= totalLines THEN 70
    ELSE IF 100 * commentLines >= totalLines THEN 40
    ELSE 10

\* ratio = commentLines / totalLines; ratio > 0.10 iff 10 * commentLines > totalLines
scoreCommentDensity(commentLines, totalLines) ==
    IF totalLines = 0 THEN 100
    ELSE IF 10 * commentLines > totalLines THEN 100
    ELSE IF 20 * commentLines > totalLines THEN 70
    ELSE IF 100 * commentLines > totalLines THEN 40
    ELSE 10

scoreFileSize(totalLines) ==
    IF totalLines > 500 THEN 0
    ELSE IF totalLines > 300 THEN 40
    ELSE IF totalLines > 150 THEN 70
    ELSE 100

\* the [label, score] pairs of getTopIssue, in the order it lists them
IssueTable(signals) ==
    << <<"function too long", signals.functionLength>>,
       <<"high coupling", signals.coupling>>,
       <<"no tests", signals.testCoverage>>,
       <<"low comments", signals.commentDensity>>,
       <<"file too large", signals.fileSize>> >>

\* a sort that leaves the last of the entries holding the lowest score in front
getTopIssueLastLowest(signals) ==
    LET t == IssueTable(signals)
        last == CHOOSE i \in 1..Len(t) :
                    /\ \A j \in 1..Len(t) : t[i][2] <= t[j][2]
                    /\ \A j \in (i + 1)..Len(t) : t[j][2] > t[i][2]
    IN  IF t[last][2] >= 70 THEN "AI-ready" ELSE t[last][1]

\* issues.sort((a, b) => a[1] - b[1]) is stable: issues[0] is the first entry of
\* the table holding the lowest score
getTopIssue(signals) ==
    LET t == IssueTable(signals)
        first == CHOOSE i \in 1..Len(t) :
                    /\ \A j \in 1..Len(t) : t[i][2] <= t[j][2]
                    /\ \A j \in 1..(i - 1) : t[j][2] > t[i][2]
    IN  IF t[first][2] >= 70 THEN "AI-ready" ELSE t[first][1]

getFix(issue) ==
    CASE issue = "function too long" -> "split into smaller functions"
      [] issue = "high coupling" -> "extract shared utils"
      [] issue = "no tests" -> "add test file"
      [] issue = "low comments" -> "add doc comments"
      [] issue = "file too large" -> "split into modules"
      [] OTHER -> ""

\* Math.round of hundredths / 100, for hundredths >= 0: ties go up
MathRoundHundredths(hundredths) == (hundredths + 50) \div 100

\* funcScore * 0.3 + couplingScore * 0.25 + testScore * 0.25 + commentScore * 0.1
\* + sizeScore * 0.1, in hundredths (the double arithmetic is exact to rounding
\* on every combination of band values)
WeightedHundredths(funcScore, couplingScore, testScore, commentScore, sizeScore) ==
    funcScore * 30 + couplingScore * 25 + testScore * 25 + commentScore * 10 + sizeScore * 10

WeightedFloor(funcScore, couplingScore, testScore, commentScore, sizeScore) ==
    (funcScore * 30 + couplingScore * 25 + testScore * 25 + commentScore * 10
        + sizeScore * 10) \div 100

overallScore(funcScore, couplingScore, testScore, commentScore, sizeScore) ==
    MathRoundHundredths(
        WeightedHundredths(funcScore, couplingScore, testScore, commentScore, sizeScore))

AllHundred ==
    [functionLength |-> 100, coupling |-> 100, testCoverage |-> 100,
     commentDensity |-> 100, fileSize |-> 100]

EmptyFileAsParsed(file) ==
    LET parsed == parseSource(file.code, file.ast)
        signals == [ functionLength |-> 100,
                     coupling       |-> scoreCoupling(parsed.imports),
                     testCoverage   |-> scoreTestCoverage(file, file.disk),
                     commentDensity |-> scoreCommentDensity(parsed.commentLines, parsed.totalLines),
                     fileSize       |-> scoreFileSize(parsed.totalLines) ]
    IN  [ path |-> file.path,
          score |-> overallScore(signals.functionLength, signals.coupling,
                        signals.testCoverage, signals.commentDensity, signals.fileSize),
          issues |-> <<>>, signals |-> signals ]

\* the fast path of core/analyzer.ts:118-120
EmptyFileScore(file) ==
    [path |-> file.path, score |-> 100, issues |-> <<>>, signals |-> AllHundred]

analyzeFile(file) ==
    IF ~file.readable
    THEN [path |-> file.path, score |-> 0, issues |-> <<"file unreadable">>]
    ELSE IF TrimIsEmpty(file.code)
    THEN EmptyFileScore(file)
    ELSE
      LET parsed == parseSource(file.code, file.ast)
          nfun == Len(parsed.functions)
          funcScore == IF nfun = 0 THEN 100
                       ELSE scoreFunctionLength(SumSeq(parsed.functions), nfun)
          couplingScore == scoreCoupling(parsed.imports)
          testScore == scoreTestCoverage(file, file.disk)
          commentScore == scoreCommentDensity(parsed.commentLines, parsed.totalLines)
          sizeScore == scoreFileSize(parsed.totalLines)
          overall == overallScore(funcScore, couplingScore, testScore, commentScore, sizeScore)
          signals == [ functionLength |-> funcScore,
                       coupling       |-> couplingScore,
                       testCoverage   |-> testScore,
                       commentDensity |-> commentScore,
                       fileSize       |-> sizeScore ]
          topIssue == getTopIssue(signals)
          issues == IF topIssue # "AI-ready"
                    THEN IF getFix(topIssue) # "" THEN <<topIssue, getFix(topIssue)>>
                         ELSE <<topIssue>>
                    ELSE <<>>
      IN  [path |-> file.path, score |-> overall, issues |-> issues, signals |-> signals]

(***************************************************************************)
(* SpecAnalyzeFile: analyzeFile on one file of every shape within bounds   *)
(***************************************************************************)
MaxImports == 9
MaxBlankLines == 2
MaxTestFiles == 1

CommentSamples == {0, 1, 5, 16}
OtherSamples == {0, 1, 50, 150, 300, 500}
FunctionSamples == {<<>>, <<20>>, <<21, 22>>, <<29, 31>>, <<30, 31>>, <<50>>, <<51>>}
\* the AST parse throws, or yields the functions' line counts
AstSamples ==
    {[ok |-> FALSE, functions |-> <<>>]} \cup {[ok |-> TRUE, functions |-> f] : f \in FunctionSamples}
NoFunctions == [ok |-> TRUE, functions |-> <<>>]

FilePaths ==
    { [path |-> "src/m.ts", dir |-> <<"base", "src">>, base |-> "m", ext |-> ".ts"],
      [path |-> "lib/util/m.js", dir |-> <<"base", "lib", "util">>, base |-> "m", ext |-> ".js"] }

\* a test kept under the file's own name in a sibling __tests__ directory
PlainTestFile(file) == PathOf(file.dir \o <<"__tests__">>, file.base, "", file.ext)

\* what may exist on disk beside the file: up to MaxTestFiles test files, each at
\* one of the patterns or at the plain __tests__ path
DisksOf(file) ==
    {d \in SUBSET (Range(TestPatterns(file)) \cup {PlainTestFile(file)}) :
        Cardinality(d) <= MaxTestFiles}

FileOf(where, readable, code, ast, disk) ==
    [ path |-> where.path, dir |-> where.dir, base |-> where.base, ext |-> where.ext,
      readable |-> readable, code |-> code, ast |-> ast, disk |-> disk ]

BlankCode == {[ws |-> n, imports |-> 0, comments |-> 0, other |-> 0] : n \in 1..MaxBlankLines}

SourceCode ==
    {c \in [ws : 0..1, imports : 0..MaxImports, comments : CommentSamples, other : OtherSamples] :
        ~TrimIsEmpty(c)}

\* a function of the AST spans lines of the text
AstFits(code, ast) ==
    \A i \in 1..Len(ast.functions) : ast.functions[i] <= totalLinesOf(code)

UnreadableCode == [ws |-> 1, imports |-> 0, comments |-> 0, other |-> 0]

InitAnalyzeFile ==
    /\ \E w \in FilePaths : \E d \in DisksOf(w) :
         \/ fileArg = FileOf(w, FALSE, UnreadableCode, NoFunctions, d)
         \/ \E c \in BlankCode : fileArg = FileOf(w, TRUE, c, NoFunctions, d)
         \/ \E c \in SourceCode : \E a \in AstSamples :
                /\ AstFits(c, a)
                /\ fileArg = FileOf(w, TRUE, c, a, d)
    /\ fileRet = NoScore
    /\ RiskIdle
    /\ RunIdle
    /\ DirIdle
    /\ MainIdle
    /\ TextIdle
    /\ DensityIdle
    /\ OverlapIdle

CallAnalyzeFile ==
    /\ fileRet = NoScore
    /\ fileRet' = analyzeFile(fileArg)
    /\ UNCHANGED <<fileArg, riskVars, runVars, dirVars, mainVars, textVars, densityVars, overlapVars>>

NextAnalyzeFile == CallAnalyzeFile

SpecAnalyzeFile == InitAnalyzeFile /\ [][NextAnalyzeFile]_vars

ReturnedFrom(arg) == fileRet # NoScore /\ fileArg = arg

\* C2: for every readable, non-empty file the score is the weighted sum
\* 0.30*functionLength + 0.25*coupling + 0.25*testCoverage + 0.10*commentDensity
\* + 0.10*fileSize of the five sub-scores reported in the file's signals,
\* rounded to the nearest integer (a tie going up).
C2_WeightedScore ==
    (fileRet # NoScore /\ fileArg.readable /\ ~TrimIsEmpty(fileArg.code)) =>
        LET s == fileRet.signals
            exact10 == 3 * s.functionLength + (5 * s.coupling) \div 2
                        + (5 * s.testCoverage) \div 2 + s.commentDensity + s.fileSize
            half == IF (5 * s.coupling + 5 * s.testCoverage) % 2 = 1 THEN 1 ELSE 0
            \* the weighted sum is (2 * exact10 + half) / 20
        IN  /\ DOMAIN fileRet = {"path", "score", "issues", "signals"}
            /\ DOMAIN s = {"functionLength", "coupling", "testCoverage",
                           "commentDensity", "fileSize"}
            /\ 20 * fileRet.score - (2 * exact10 + half) \in -9..10

\* a tie: coupling 70 puts the weighted sum on a half (30 + 17.5 + 0 + 1 + 10 = 58.5)
C2_Witness ==
    /\ fileRet # NoScore
    /\ fileArg.readable
    /\ ~TrimIsEmpty(fileArg.code)
    /\ fileRet.signals = [functionLength |-> 100, coupling |-> 70, testCoverage |-> 0,
                          commentDensity |-> 10, fileSize |-> 100]
    /\ fileRet.score = 59

\* C10: an empty or whitespace-only file gets score 100, no issues and all five
\* sub-scores 100, testCoverage included, whether or not a test file exists.
C10_EmptyFile ==
    (fileRet # NoScore /\ fileArg.readable /\ TrimIsEmpty(fileArg.code)) =>
        /\ fileRet.score = 100
        /\ fileRet.issues = <<>>
        /\ \A k \in DOMAIN fileRet.signals : fileRet.signals[k] = 100
        /\ DOMAIN fileRet.signals = {"functionLength", "coupling", "testCoverage",
                                     "commentDensity", "fileSize"}

\* a whitespace-only file of two lines with no test file on disk
C10_Witness ==
    /\ fileRet # NoScore
    /\ fileArg.readable
    /\ TrimIsEmpty(fileArg.code)
    /\ fileArg.code.ws = 2
    /\ fileArg.disk = {}
    /\ fileRet.signals.testCoverage = 100

(***************************************************************************)
(* The risk engine (src/src/analyzer.ts:308-762)                           *)
(*                                                                         *)
(* A root-relative path is [dir, stem, ext]; an absolute path carries the  *)
(* root as well.  madge names files by root-relative paths, extension      *)
(* included.                                                               *)
(***************************************************************************)
CodeExts == {".ts", ".tsx", ".js", ".jsx"}

Rel(dir, stem, ext) == [dir |-> dir, stem |-> stem, ext |-> ext]

\* f.replace(/\.(ts|tsx|js|jsx)$/, '')
StripExt(f) == IF f.ext \in CodeExts THEN [f EXCEPT !.ext = ""] ELSE f

\* path.relative(projectRoot, file), for a file under the root
pathRelative(projectRoot, file) == Rel(file.dir, file.stem, file.ext)

\* path.resolve(projectRoot, rel)
pathResolve(projectRoot, rel) ==
    [root |-> projectRoot, dir |-> rel.dir, stem |-> rel.stem, ext |-> rel.ext]

\* path.basename(f)
pathBasename(f) == [stem |-> f.stem, ext |-> f.ext]

ProjectRoot == "/repo"

SrcHubTs == Rel("src", "hub", ".ts")
SrcHubJs == Rel("src", "hub", ".js")
SrcI1 == Rel("src", "i1", ".ts")
LibI1 == Rel("lib", "i1", ".ts")
SrcI3 == Rel("src", "i3", ".ts")
SrcI4 == Rel("src", "i4", ".ts")

\* the files of the project, in the order of the keys of madge's obj()
GraphOrder == <<LibI1, SrcHubJs, SrcHubTs, SrcI1, SrcI3, SrcI4>>
Universe == Range(GraphOrder)

\* the files that may import src/hub.ts, besides src/hub.js and src/hub.ts itself
PlainImporters == <<LibI1, SrcI1, SrcI3, SrcI4>>

(***************************************************************************)
(* The dependency graph provider (madge): obj() maps each importer to the  *)
(* files it imports, circular() lists the cycle groups.  The graphs of the *)
(* model hold cycles of one file (a file importing itself) and of two.     *)
(***************************************************************************)
MadgeCircular(deps) ==
    LET Pairs == {p \in (1..Len(GraphOrder)) \X (1..Len(GraphOrder)) :
                    /\ p[1] <= p[2]
                    /\ GraphOrder[p[2]] \in deps[GraphOrder[p[1]]]
                    /\ GraphOrder[p[1]] \in deps[GraphOrder[p[2]]]}
        RECURSIVE Groups(_, _)
        Groups(i, j) ==
            IF i > Len(GraphOrder) THEN <<>>
            ELSE IF j > Len(GraphOrder) THEN Groups(i + 1, i + 1)
            ELSE (IF <<i, j>> \in Pairs
                  THEN <<IF i = j THEN <<GraphOrder[i]>>
                         ELSE <<GraphOrder[i], GraphOrder[j]>>>>
                  ELSE <<>>) \o Groups(i, j + 1)
    IN  Groups(1, 1)

MadgeResultOf(deps) == [obj |-> deps, circular |-> MadgeCircular(deps)]

\* detectCircularDeps after the graph is at hand (analyzer.ts:532-549)
circularDepsFrom(graph, projectRoot, filePath) ==
    LET relFile == pathRelative(projectRoot, filePath)
        relNoExt == StripExt(relFile)
        Matches(cycle) ==
            \E i \in 1..Len(cycle) :
                cycle[i] = relFile \/ cycle[i] = relNoExt \/ StripExt(cycle[i]) = relNoExt
        RECURSIVE PushCycle(_, _)
        PushCycle(deps, cycle) ==
            IF cycle = <<>> THEN deps
            ELSE PushCycle(
                    IF StripExt(Head(cycle)) # relNoExt /\ Head(cycle) \notin Range(deps)
                    THEN Append(deps, Head(cycle)) ELSE deps,
                    Tail(cycle))
        RECURSIVE Walk(_, _)
        Walk(deps, cycles) ==
            IF cycles = <<>> THEN deps
            ELSE Walk(IF Matches(Head(cycles)) THEN PushCycle(deps, Head(cycles)) ELSE deps,
                      Tail(cycles))
    IN  Walk(<<>>, graph.circular)

\* detectIncomingDepsDetails after the graph is at hand (analyzer.ts:566-581)
incomingDepsFrom(graph, projectRoot, filePath) ==
    LET relFile == pathRelative(projectRoot, filePath)
        relNoExt == StripExt(relFile)
        Imports(importer) ==
            \E dep \in graph.obj[importer] :
                dep = relFile \/ dep = relNoExt \/ StripExt(dep) = relNoExt
        incomingFiles == SelectSeq(GraphOrder, Imports)
    IN  [count |-> Len(incomingFiles), files |-> incomingFiles]

\* a catch branch answering with a sentinel count
IncomingDepsUnknown == [count |-> -1, files |-> <<>>]

\* the catch branches (analyzer.ts:550-552, 582-584)
NoCircularDeps == <<>>
NoIncomingDeps == [count |-> 0, files |-> <<>>]

\* detectTestCoverage (analyzer.ts:460-512): w.tests[f] lists the assertion counts
\* of f's candidate test files that exist, in candidate order; the first decides
detectTestCoverage(w, filePath) ==
    LET found == w.tests[pathRelative(w.root, filePath)]
    IN  IF found # <<>>
        THEN [has_test_file |-> TRUE, assertion_count |-> Head(found)]
        ELSE [has_test_file |-> FALSE, assertion_count |-> 0]

\* fs.readFileSync(filePath) throws (analyzer.ts:371, 411)
ReadThrows(w, filePath) == pathRelative(w.root, filePath) \in w.unreadable

detectGlobalMutations(w, filePath) == w.globals[pathRelative(w.root, filePath)]
detectMissingReturnTypes(w, filePath) == w.missing[pathRelative(w.root, filePath)]

(***************************************************************************)
(* generateBriefing (analyzer.ts:618-646): the briefing is kept as the     *)
(* list of its fragments, each [kind, n, names]; parts.join(' ') keeps     *)
(* their order.                                                            *)
(***************************************************************************)
Fragment(kind, n, names, idents) ==
    [kind |-> kind, n |-> n, names |-> names, idents |-> idents]

FirstN(s, n) == SubSeq(s, 1, IF Len(s) < n THEN Len(s) ELSE n)

MapBasename(s) == [i \in 1..Len(s) |-> pathBasename(s[i])]

MapName(s) == [i \in 1..Len(s) |-> s[i].name]

\* the circular hint pushed ahead of the downstream warning
generateBriefingCycleFirst(analysis) ==
    LET du == analysis.downstream_untested
        parts ==
            (IF analysis.incoming_deps > 0
             THEN <<Fragment("editing this affects N file(s).", analysis.incoming_deps, <<>>, <<>>)>>
             ELSE <<>>)
         \o (IF Len(analysis.circular_deps) > 0
             THEN <<Fragment("read X before touching this file.", 0,
                             <<pathBasename(analysis.circular_deps[1])>>, <<>>)>>
             ELSE <<>>)
         \o (IF Len(du) > 0
             THEN <<Fragment("downstream without tests", IF Len(du) > 3 THEN Len(du) - 3 ELSE 0,
                             MapBasename(FirstN(du, 3)), <<>>)>>
             ELSE <<>>)
         \o (IF Len(analysis.global_mutations) > 0
             THEN <<Fragment("avoid X - shared state.", 0, <<>>,
                             MapName(analysis.global_mutations))>>
             ELSE <<>>)
         \o (IF analysis.missing_return_types > 0
             THEN <<Fragment("N functions lack return types.", analysis.missing_return_types,
                             <<>>, <<>>)>>
             ELSE <<>>)
         \o (IF analysis.incoming_deps > 5 /\ analysis.test_coverage.assertion_count < 5
             THEN <<Fragment("write tests before editing", 0, <<>>, <<>>)>>
             ELSE <<>>)
    IN  IF parts = <<>> THEN <<Fragment("safe to edit.", 0, <<>>, <<>>)>> ELSE parts

generateBriefing(analysis) ==
    LET du == analysis.downstream_untested
        parts ==
            (IF analysis.incoming_deps > 0
             THEN <<Fragment("editing this affects N file(s).", analysis.incoming_deps, <<>>, <<>>)>>
             ELSE <<>>)
         \o (IF Len(du) > 0
             THEN <<Fragment("downstream without tests", IF Len(du) > 3 THEN Len(du) - 3 ELSE 0,
                             MapBasename(FirstN(du, 3)), <<>>)>>
             ELSE <<>>)
         \o (IF Len(analysis.circular_deps) > 0
             THEN <<Fragment("read X before touching this file.", 0,
                             <<pathBasename(analysis.circular_deps[1])>>, <<>>)>>
             ELSE <<>>)
         \o (IF Len(analysis.global_mutations) > 0
             THEN <<Fragment("avoid X - shared state.", 0, <<>>,
                             MapName(analysis.global_mutations))>>
             ELSE <<>>)
         \o (IF analysis.missing_return_types > 0
             THEN <<Fragment("N functions lack return types.", analysis.missing_return_types,
                             <<>>, <<>>)>>
             ELSE <<>>)
         \o (IF analysis.incoming_deps > 5 /\ analysis.test_coverage.assertion_count < 5
             THEN <<Fragment("write tests before editing", 0, <<>>, <<>>)>>
             ELSE <<>>)
    IN  IF parts = <<>> THEN <<Fragment("safe to edit.", 0, <<>>, <<>>)>> ELSE parts

(***************************************************************************)
(* generateActionItems (analyzer.ts:648-683): an item is kept as           *)
(* [kind, names, idents, more, target, n].                                 *)
(***************************************************************************)
Item(kind, names, idents, more, target, n) ==
    [kind |-> kind, names |-> names, idents |-> idents, more |-> more,
     target |-> target, n |-> n]

RECURSIVE Dedup(_, _)
Dedup(s, seen) ==
    IF s = <<>> THEN <<>>
    ELSE IF Head(s) \in seen THEN Dedup(Tail(s), seen)
    ELSE <<Head(s)>> \o Dedup(Tail(s), seen \cup {Head(s)})

UntestedItem(a) ==
    Item("write tests for X before editing T (N files depend on it)",
         MapBasename(FirstN(a.downstream_untested, 2)), <<>>,
         IF Len(a.downstream_untested) > 2 THEN Len(a.downstream_untested) - 2 ELSE 0,
         pathBasename(a.file), a.incoming_deps)

CircularItem(a) ==
    Item("read X before touching T - circular dependency",
         <<pathBasename(a.circular_deps[1])>>, <<>>, 0, pathBasename(a.file), 0)

GlobalsItem(a) ==
    Item("trace usages of X in T - shared by N files", <<>>,
         MapName(FirstN(a.global_mutations, 2)), 0, pathBasename(a.file),
         a.incoming_deps)

\* one loop over the analyses pushing each file's items together
RECURSIVE ItemsByFile(_)
ItemsByFile(list) ==
    IF list = <<>> THEN <<>>
    ELSE LET a == Head(list)
         IN  (IF Len(a.downstream_untested) > 0 /\ a.incoming_deps > 0
              THEN <<UntestedItem(a)>> ELSE <<>>)
          \o (IF Len(a.circular_deps) > 0 THEN <<CircularItem(a)>> ELSE <<>>)
          \o (IF Len(a.global_mutations) > 0 /\ a.incoming_deps > 2
              THEN <<GlobalsItem(a)>> ELSE <<>>)
          \o ItemsByFile(Tail(list))

generateActionItemsByFile(list) == FirstN(Dedup(ItemsByFile(list), {}), 5)

generateActionItems(list) ==
    LET untested == SelectSeq(list,
            LAMBDA a : Len(a.downstream_untested) > 0 /\ a.incoming_deps > 0)
        circular == SelectSeq(list, LAMBDA a : Len(a.circular_deps) > 0)
        globals == SelectSeq(list,
            LAMBDA a : Len(a.global_mutations) > 0 /\ a.incoming_deps > 2)
        items == [i \in 1..Len(untested) |-> UntestedItem(untested[i])]
              \o [i \in 1..Len(circular) |-> CircularItem(circular[i])]
              \o [i \in 1..Len(globals) |-> GlobalsItem(globals[i])]
    IN  FirstN(Dedup(items, {}), 5)

(***************************************************************************)
(* analyzeFiles (analyzer.ts:685-762)                                      *)
(***************************************************************************)
\* analyses.find(a => a.file = name): the assignment is truthy, the first element matches
FindFirstAnalysis(list, name) == IF list = <<>> THEN 0 ELSE 1

\* analyses.find(a => a.file === name): the index of the first match, 0 if none
FindAnalysis(list, name) ==
    IF \E i \in 1..Len(list) : list[i].file = name
    THEN CHOOSE i \in 1..Len(list) :
            /\ list[i].file = name
            /\ \A j \in 1..(i - 1) : list[j].file # name
    ELSE 0

\* the first pass's record of one file (analyzer.ts:695-709)
FirstPassRecord(w, filePath, circular_deps, incomingResult) ==
    LET partial ==
            [ file |-> pathRelative(w.root, filePath),
              incoming_deps |-> incomingResult.count,
              incoming_files |-> incomingResult.files,
              downstream_untested |-> <<>>,
              circular_deps |-> circular_deps,
              global_mutations |-> detectGlobalMutations(w, filePath),
              missing_return_types |-> detectMissingReturnTypes(w, filePath),
              test_coverage |-> detectTestCoverage(w, filePath),
              risk_level |-> "low",
              briefing |-> <<>> ]
        risk_level == calculateRisk(partial)
    IN  [partial EXCEPT !.risk_level = risk_level,
                        !.briefing = generateBriefing([partial EXCEPT !.risk_level = risk_level])]

\* the second pass without the lookup for importers outside the scanned set
ImporterUntestedScannedOnly(w, list, incomingFile) ==
    LET existing == FindAnalysis(list, incomingFile)
    IN  existing # 0 /\ ~list[existing].test_coverage.has_test_file

\* whether an importer counts as untested in the second pass (analyzer.ts:716-731)
ImporterUntested(w, list, incomingFile) ==
    LET absIncoming == pathResolve(w.root, incomingFile)
        existing == FindAnalysis(list, incomingFile)
    IN  IF existing # 0
        THEN ~list[existing].test_coverage.has_test_file
        ELSE /\ absIncoming \in w.onDisk
             /\ ~detectTestCoverage(w, absIncoming).has_test_file

\* a second pass that leaves the first pass's briefing in place
SecondPassRecordStaleBriefing(w, list, analysis) ==
    LET Untested(incomingFile) == ImporterUntested(w, list, incomingFile)
        withDownstream ==
            [analysis EXCEPT !.downstream_untested = SelectSeq(analysis.incoming_files, Untested)]
    IN  [withDownstream EXCEPT !.risk_level = calculateRisk(withDownstream)]

\* the second pass's update of one record (analyzer.ts:713-738)
SecondPassRecord(w, list, analysis) ==
    LET Untested(incomingFile) == ImporterUntested(w, list, incomingFile)
        withDownstream ==
            [analysis EXCEPT !.downstream_untested = SelectSeq(analysis.incoming_files, Untested)]
        withRisk == [withDownstream EXCEPT !.risk_level = calculateRisk(withDownstream)]
    IN  [withRisk EXCEPT !.briefing = generateBriefing(withRisk)]

\* the list left in first-pass order
UnsortedByRisk(list) == list

\* analyses.sort((a, b) => order[a.risk_level] - order[b.risk_level]), stable
WithLevel(list, level) == SelectSeq(list, LAMBDA a : a.risk_level = level)
SortByRisk(list) == WithLevel(list, "high") \o WithLevel(list, "medium") \o WithLevel(list, "low")

\* the summary with the attention count taken from the high-risk files alone
summaryOfHighOnly(list) ==
    LET highCount == Len(WithLevel(list, "high"))
        medCount == Len(WithLevel(list, "medium"))
        lowCount == Len(WithLevel(list, "low"))
        parts == (IF highCount > 0 THEN <<[count |-> highCount, label |-> "high risk"]>> ELSE <<>>)
              \o (IF medCount > 0 THEN <<[count |-> medCount, label |-> "medium"]>> ELSE <<>>)
              \o (IF lowCount > 0 THEN <<[count |-> lowCount, label |-> "low"]>> ELSE <<>>)
        needsAttention == highCount
    IN  IF needsAttention > 0
        THEN [kind |-> "need attention before starting your session.", parts |-> parts,
              n |-> needsAttention, singular |-> (needsAttention = 1)]
        ELSE [kind |-> "analyzed. all clear - safe to start.", parts |-> <<>>,
              n |-> Len(list), singular |-> (Len(list) = 1)]

\* the summary sentence (analyzer.ts:744-756): its counts and its wording
summaryOf(list) ==
    LET highCount == Len(WithLevel(list, "high"))
        medCount == Len(WithLevel(list, "medium"))
        lowCount == Len(WithLevel(list, "low"))
        parts == (IF highCount > 0 THEN <<[count |-> highCount, label |-> "high risk"]>> ELSE <<>>)
              \o (IF medCount > 0 THEN <<[count |-> medCount, label |-> "medium"]>> ELSE <<>>)
              \o (IF lowCount > 0 THEN <<[count |-> lowCount, label |-> "low"]>> ELSE <<>>)
        needsAttention == highCount + medCount
    IN  IF needsAttention > 0
        THEN [kind |-> "need attention before starting your session.", parts |-> parts,
              n |-> needsAttention, singular |-> (needsAttention = 1)]
        ELSE [kind |-> "analyzed. all clear - safe to start.", parts |-> <<>>,
              n |-> Len(list), singular |-> (Len(list) = 1)]

\* one loop: each file's downstream_untested is computed right after its own record
InterleavedAfterFirstPass(i, n) == [pc |-> "second_pass", idx |-> i]

\* where the run goes after the first pass's record of file i of n is pushed
AfterFirstPass(i, n) ==
    IF i < n THEN [pc |-> "circular", idx |-> i + 1] ELSE [pc |-> "second_pass", idx |-> 1]

\* where the run goes after the second pass's update of record i of n
AfterSecondPass(i, n) ==
    IF i < n THEN [pc |-> "second_pass", idx |-> i + 1] ELSE [pc |-> "finish", idx |-> 0]


(***************************************************************************)
(* The projects of the model.  src/hub.ts is imported by the first n of    *)
(* PlainImporters, optionally by src/hub.js, and imports some of itself,   *)
(* src/hub.js and src/i1.ts; the first u of PlainImporters have no test    *)
(* file, and src/hub.js has none.                                          *)
(***************************************************************************)
MaxScanned == 2

DepsOf(n, hubDeps, jsImportsHub) ==
    [f \in Universe |->
        IF f = SrcHubTs THEN hubDeps
        ELSE IF f = SrcHubJs THEN (IF jsImportsHub THEN {SrcHubTs} ELSE {})
        ELSE IF \E k \in 1..n : PlainImporters[k] = f THEN {SrcHubTs}
        ELSE {}]

HubDepsChoices == {{}, {SrcHubTs}, {SrcHubJs}, {SrcI1}, {SrcHubTs, SrcHubJs}}

TestsOf(hubTests, u) ==
    [f \in Universe |->
        IF f = SrcHubTs THEN hubTests
        ELSE IF f = SrcHubJs THEN <<>>
        ELSE IF \E k \in 1..u : PlainImporters[k] = f THEN <<>>
        ELSE <<5>>]

HubTestChoices == {<<>>, <<5>>}

Global(name, line) == [name |-> name, line |-> line]

\* the module-scope let/var declarations and the count of exported functions
\* without a return type that src/hub.ts may hold
HubProfiles ==
    { [globals |-> <<>>, missing |-> 0],
      [globals |-> <<Global("config", 1)>>, missing |-> 3],
      [globals |-> <<Global("a", 1), Global("b", 2), Global("c", 3)>>, missing |-> 0],
      [globals |-> <<>>, missing |-> 6] }

GlobalsOf(profile) ==
    [f \in Universe |->
        IF f = SrcHubTs THEN profile.globals
        ELSE IF f = SrcI1 THEN <<Global("cache", 4)>>
        ELSE <<>>]

MissingOf(profile) ==
    [f \in Universe |-> IF f = SrcHubTs THEN profile.missing ELSE 0]

World(deps, tests, profile, unreadable, madgeFails) ==
    [ root |-> ProjectRoot,
      deps |-> deps,
      tests |-> tests,
      globals |-> GlobalsOf(profile),
      missing |-> MissingOf(profile),
      onDisk |-> {pathResolve(ProjectRoot, f) : f \in Universe},
      unreadable |-> unreadable,
      madgeFails |-> madgeFails ]

\* the files a scan may be given
ScanCandidates == {SrcHubTs, SrcHubJs, SrcI1}

ScanLists ==
    UNION { {l \in [1..k -> ScanCandidates] : \A i, j \in 1..k : i # j => l[i] # l[j]}
            : k \in 0..MaxScanned }

Init ==
    /\ \/ \E n \in 0..Len(PlainImporters), u \in 0..Len(PlainImporters),
             hubDeps \in HubDepsChoices, jsImportsHub \in BOOLEAN,
             hubTests \in HubTestChoices, profile \in HubProfiles :
            world = World(DepsOf(n, hubDeps, jsImportsHub), TestsOf(hubTests, u),
                          profile, {}, FALSE)
       \/ \E u \in 0..Len(PlainImporters), hubTests \in HubTestChoices,
             profile \in HubProfiles :
            world = World(DepsOf(Len(PlainImporters), {SrcHubJs}, TRUE),
                          TestsOf(hubTests, u), profile, {}, TRUE)
       \/ \E f \in ScanCandidates, madgeFails \in BOOLEAN, profile \in HubProfiles :
            world = World(DepsOf(Len(PlainImporters), {SrcI1}, TRUE),
                          TestsOf(<<>>, 3), profile, {f}, madgeFails)
    /\ files = <<>>
    /\ pc = "idle"
    /\ idx = 0
    /\ cur = NoArg
    /\ analyses = <<>>
    /\ madgeCache = <<>>
    /\ madgeCalls = 0
    /\ result = NoArg
    /\ RiskIdle
    /\ ScoreIdle
    /\ DirIdle
    /\ MainIdle
    /\ TextIdle
    /\ DensityIdle
    /\ OverlapIdle

\* analyzeFiles(files, projectRoot) is called
StartRun ==
    /\ pc = "idle"
    /\ \E list \in ScanLists :
        /\ files' = [i \in 1..Len(list) |-> pathResolve(world.root, list[i])]
        /\ pc' = IF list = <<>> THEN "finish" ELSE "circular"
        /\ idx' = IF list = <<>> THEN 0 ELSE 1
    /\ UNCHANGED <<world, cur, analyses, madgeCache, madgeCalls, result, riskVars, scoreVars, dirVars, mainVars, textVars, densityVars, overlapVars>>

\* detectCircularDeps up to its await (analyzer.ts:521-528): a hit answers from
\* the cached graph, a miss invokes madge
DetectCircularDeps ==
    /\ pc = "circular"
    /\ IF world.root \in DOMAIN madgeCache
       THEN /\ cur' = [circular_deps |-> circularDepsFrom(madgeCache[world.root], world.root,
                                                           files[idx]),
                       incoming |-> NoIncomingDeps]
            /\ pc' = "incoming"
            /\ UNCHANGED madgeCalls
       ELSE /\ madgeCalls' = madgeCalls + 1
            /\ pc' = "circular_madge"
            /\ UNCHANGED cur
    /\ UNCHANGED <<world, files, idx, analyses, madgeCache, result, riskVars, scoreVars, dirVars, mainVars, textVars, densityVars, overlapVars>>

\* madge settles inside detectCircularDeps (analyzer.ts:525-552)
MadgeSettlesCircular ==
    /\ pc = "circular_madge"
    /\ IF world.madgeFails
       THEN /\ cur' = [circular_deps |-> NoCircularDeps, incoming |-> NoIncomingDeps]
            /\ UNCHANGED madgeCache
       ELSE /\ madgeCache' = (world.root :> MadgeResultOf(world.deps)) @@ madgeCache
            /\ cur' = [circular_deps |-> circularDepsFrom(MadgeResultOf(world.deps),
                                                           world.root, files[idx]),
                       incoming |-> NoIncomingDeps]
    /\ pc' = "incoming"
    /\ UNCHANGED <<world, files, idx, analyses, madgeCalls, result, riskVars, scoreVars, dirVars, mainVars, textVars, densityVars, overlapVars>>

\* detectIncomingDepsDetails up to its await (analyzer.ts:555-562)
DetectIncomingDeps ==
    /\ pc = "incoming"
    /\ IF world.root \in DOMAIN madgeCache
       THEN /\ cur' = [cur EXCEPT !.incoming =
                          incomingDepsFrom(madgeCache[world.root], world.root, files[idx])]
            /\ pc' = "facts"
            /\ UNCHANGED madgeCalls
       ELSE /\ madgeCalls' = madgeCalls + 1
            /\ pc' = "incoming_madge"
            /\ UNCHANGED cur
    /\ UNCHANGED <<world, files, idx, analyses, madgeCache, result, riskVars, scoreVars, dirVars, mainVars, textVars, densityVars, overlapVars>>

\* madge settles inside detectIncomingDepsDetails (analyzer.ts:559-584)
MadgeSettlesIncoming ==
    /\ pc = "incoming_madge"
    /\ IF world.madgeFails
       THEN /\ cur' = [cur EXCEPT !.incoming = NoIncomingDeps]
            /\ UNCHANGED madgeCache
       ELSE /\ madgeCache' = (world.root :> MadgeResultOf(world.deps)) @@ madgeCache
            /\ cur' = [cur EXCEPT !.incoming =
                          incomingDepsFrom(MadgeResultOf(world.deps), world.root, files[idx])]
    /\ pc' = "facts"
    /\ UNCHANGED <<world, files, idx, analyses, madgeCalls, result, riskVars, scoreVars, dirVars, mainVars, textVars, densityVars, overlapVars>>

\* the rest of a first-pass iteration (analyzer.ts:691-709): the file is read;
\* a read that throws ends the run with the error
CollectFacts ==
    /\ pc = "facts"
    /\ IF ReadThrows(world, files[idx])
       THEN /\ pc' = "failed"
            /\ result' = [error |-> "readFileSync", file |-> files[idx]]
            /\ UNCHANGED <<analyses, idx>>
       ELSE /\ analyses' = Append(analyses,
                              FirstPassRecord(world, files[idx], cur.circular_deps, cur.incoming))
            /\ pc' = AfterFirstPass(idx, Len(files)).pc
            /\ idx' = AfterFirstPass(idx, Len(files)).idx
            /\ UNCHANGED result
    /\ cur' = NoArg
    /\ UNCHANGED <<world, files, madgeCache, madgeCalls, riskVars, scoreVars, dirVars, mainVars, textVars, densityVars, overlapVars>>

\* one iteration of the second pass (analyzer.ts:713-738)
SecondPass ==
    /\ pc = "second_pass"
    /\ analyses' = [analyses EXCEPT ![idx] = SecondPassRecord(world, analyses, analyses[idx])]
    /\ pc' = AfterSecondPass(idx, Len(analyses)).pc
    /\ idx' = AfterSecondPass(idx, Len(analyses)).idx
    /\ UNCHANGED <<world, files, cur, madgeCache, madgeCalls, result, riskVars, scoreVars, dirVars, mainVars, textVars, densityVars, overlapVars>>

\* clearMadgeCache (analyzer.ts:593-595): madgeCache = new Map()
clearMadgeCache == <<>>

\* sort, summary, clearMadgeCache, action items, return (analyzer.ts:740-761)
Finish ==
    /\ pc = "finish"
    /\ analyses' = SortByRisk(analyses)
    /\ madgeCache' = clearMadgeCache
    /\ result' = [ files |-> SortByRisk(analyses),
                   action_items |-> generateActionItems(SortByRisk(analyses)),
                   summary |-> summaryOf(SortByRisk(analyses)) ]
    /\ pc' = "done"
    /\ UNCHANGED <<world, files, idx, cur, madgeCalls, riskVars, scoreVars, dirVars, mainVars, textVars, densityVars, overlapVars>>

Next ==
    \/ StartRun
    \/ DetectCircularDeps
    \/ MadgeSettlesCircular
    \/ DetectIncomingDeps
    \/ MadgeSettlesIncoming
    \/ CollectFacts
    \/ SecondPass
    \/ Finish

Spec == Init /\ [][Next]_vars

(***************************************************************************)
(* Claims about analyzeFiles                                               *)
(***************************************************************************)
RunDone == pc = "done"
RunOver == pc \in {"done", "failed"}
ResultRecords == IF RunDone THEN Range(result.files) ELSE {}
ScannedFiles == {pathRelative(world.root, files[i]) : i \in 1..Len(files)}

\* the cycle groups the graph reports
ReportedGroups == IF world.madgeFails THEN {} ELSE Range(MadgeCircular(world.deps))

\* C3: every scanned file that a cycle group of the graph contains (matched with
\* or without its extension) ends with risk_level high, whatever its other signals.
C3_CycleMembersHigh ==
    \A r \in ResultRecords : \A g \in ReportedGroups :
        (\E i \in 1..Len(g) : g[i] = r.file \/ g[i] = StripExt(r.file))
            => r.risk_level = "high"

\* what the project alone says about file f: its importers in the graph, those
\* without a test file, and the record built from them
ImportersOf(f) ==
    IF world.madgeFails THEN {}
    ELSE {i \in Universe : \E dep \in world.deps[i] : StripExt(dep) = StripExt(f)}

UntestedImportersOf(f) == {i \in ImportersOf(f) : world.tests[i] = <<>>}

ExpectedRecord(f) ==
    [ file |-> f,
      incoming_deps |-> Cardinality(ImportersOf(f)),
      incoming_files |-> SelectSeq(GraphOrder, LAMBDA i : i \in ImportersOf(f)),
      downstream_untested |-> SelectSeq(GraphOrder, LAMBDA i : i \in UntestedImportersOf(f)),
      circular_deps |-> IF world.madgeFails THEN <<>>
                        ELSE circularDepsFrom(MadgeResultOf(world.deps), world.root,
                                              pathResolve(world.root, f)),
      global_mutations |-> world.globals[f],
      missing_return_types |-> world.missing[f],
      test_coverage |-> [has_test_file |-> world.tests[f] # <<>>,
                         assertion_count |-> IF world.tests[f] # <<>>
                                             THEN world.tests[f][1] ELSE 0] ]

\* C4: the final downstream_untested, risk_level and briefing of every file are
\* those the project and the file alone determine, so any two orderings of the
\* same input list give every file the same three values; the result holds one
\* record per input file.
C4_OrderIndependent ==
    RunDone =>
        /\ {r.file : r \in ResultRecords} = ScannedFiles
        /\ Len(result.files) = Len(files)
        /\ \A r \in ResultRecords :
            LET expected == ExpectedRecord(r.file)
            IN  /\ r.downstream_untested = expected.downstream_untested
                /\ r.risk_level = calculateRisk(expected)
                /\ r.briefing = generateBriefing(
                        [expected EXCEPT !.file = r.file] @@ [risk_level |-> r.risk_level])

\* src/i1.ts is scanned before src/hub.ts, which it imports, and is listed
\* among src/hub.ts's untested importers
C4_Witness ==
    /\ RunDone
    /\ files = <<pathResolve(world.root, SrcI1), pathResolve(world.root, SrcHubTs)>>
    /\ \E r \in ResultRecords :
        /\ r.file = SrcHubTs
        /\ SrcI1 \in Range(r.downstream_untested)
        /\ r.risk_level = "high"
        /\ Len(r.global_mutations) <= 2 /\ r.missing_return_types <= 5
        /\ r.circular_deps = <<>>

\* C5: after analyzeFiles a file's downstream_untested holds exactly its
\* incoming importers without a test file, each once: a scanned importer by the
\* has_test_file its own record holds, an importer outside the scan by the
\* lookup on disk.
C5_DownstreamExact ==
    \A r \in ResultRecords :
        /\ Range(r.downstream_untested) =
              {i \in Range(r.incoming_files) : world.tests[i] = <<>>}
        /\ Cardinality(Range(r.downstream_untested)) = Len(r.downstream_untested)
        /\ \A i \in Range(r.incoming_files) :
              \A r2 \in ResultRecords :
                  r2.file = i =>
                      (i \in Range(r.downstream_untested) <=> ~r2.test_coverage.has_test_file)

\* src/hub.ts has an untested importer inside the scan, an untested one outside
\* it and a tested one outside it
C5_Witness ==
    /\ RunDone
    /\ \E r \in ResultRecords :
        /\ r.file = SrcHubTs
        /\ \E i \in Range(r.downstream_untested) : i \in ScannedFiles
        /\ \E i \in Range(r.downstream_untested) : i \notin ScannedFiles
        /\ \E i \in Range(r.incoming_files) :
              i \notin ScannedFiles /\ i \notin Range(r.downstream_untested)

\* C6: within one run madge is invoked at most once for the project root.
C6_MadgeInvokedOnce == madgeCalls <= 1

\* C7: once a run is over, by return or by a thrown read error, the graph cache
\* holds no entry.
C7_CacheClearedAtRunEnd == RunOver => DOMAIN madgeCache = {}

\* the classification by local signals alone
LocalLevel(f) ==
    IF Len(world.globals[f]) >= 3 \/ world.missing[f] >= 6 THEN "high"
    ELSE IF Len(world.globals[f]) >= 1 \/ world.missing[f] >= 3 \/ world.tests[f] = <<>>
    THEN "medium"
    ELSE "low"

\* C8: when building the graph fails the scan does not fail for it: the two
\* detectors answer with no cycle members and with count 0 and no importers,
\* the run ends in an error only for a file it cannot read, and a run that
\* returns holds one entry per input file, each classified by its local signals.
C8_GraphFailureDegrades ==
    world # NoArg /\ world.madgeFails =>
        /\ pc = "facts" =>
              /\ cur.circular_deps = <<>>
              /\ cur.incoming.count = 0
              /\ cur.incoming.files = <<>>
        /\ pc = "failed" => ReadThrows(world, files[idx])
        /\ RunDone =>
              /\ Len(result.files) = Len(files)
              /\ {r.file : r \in ResultRecords} = ScannedFiles
              /\ \A r \in ResultRecords :
                    /\ r.circular_deps = <<>>
                    /\ r.incoming_deps = 0
                    /\ r.incoming_files = <<>>
                    /\ r.downstream_untested = <<>>
                    /\ r.risk_level = LocalLevel(r.file)

\* with the graph unavailable, src/hub.ts (imported by six files on disk, three
\* module-scope variables) and src/hub.js (no test file) are scanned and returned
C8_Witness ==
    /\ RunDone
    /\ world.madgeFails
    /\ madgeCalls = 4
    /\ Len(result.files) = 2
    /\ \E r \in ResultRecords : r.file = SrcHubTs /\ r.risk_level = "high"
    /\ \E r \in ResultRecords : r.file = SrcHubJs /\ r.risk_level = "medium"

\* the facts the first pass records of a file
OwnFacts(r) ==
    [ file |-> r.file, incoming_deps |-> r.incoming_deps, incoming_files |-> r.incoming_files,
      circular_deps |-> r.circular_deps, global_mutations |-> r.global_mutations,
      missing_return_types |-> r.missing_return_types, test_coverage |-> r.test_coverage ]

\* C9: the two passes never interleave: while the second pass runs, every
\* scanned file has its first-pass record; no step changes a record before
\* that; and a step that changes records leaves every record's own facts
\* (has_test_file among them) as the first pass wrote them.
C9_PassesDoNotInterleave ==
    /\ [](pc = "second_pass" =>
            /\ Len(analyses) = Len(files)
            /\ \A k \in 1..Len(files) : analyses[k].file = pathRelative(world.root, files[k]))
    /\ [][ (\E k \in 1..Len(analyses) : k <= Len(analyses') /\ analyses'[k] # analyses[k])
            => /\ Len(analyses) = Len(files)
               /\ Len(analyses') = Len(analyses)
               /\ {OwnFacts(analyses'[k]) : k \in 1..Len(analyses')}
                    = {OwnFacts(analyses[k]) : k \in 1..Len(analyses)} ]_vars

\* the second pass has rewritten the first of two records
C9_Witness ==
    /\ pc = "second_pass"
    /\ idx = 2
    /\ Len(analyses) = 2
    /\ analyses[1].downstream_untested # <<>>
    /\ analyses[2].downstream_untested = <<>>
    /\ analyses[2].incoming_deps > 0

(***************************************************************************)
(* analyzeDirectory (src/src/core/analyzer.ts:165-190)                     *)
(***************************************************************************)
\* the place a file takes under fileScores.sort((a, b) => a.score - b.score);
\* the sort is stable, files of equal score keep their order
SortRank(s, i) ==
    1 + Cardinality({j \in 1..Len(s) :
            s[j].score < s[i].score \/ (s[j].score = s[i].score /\ j < i)})

\* the scores left in the order they were computed
TraversalOrder(s) == s

SortByScore(s) == [k \in 1..Len(s) |-> s[CHOOSE i \in 1..Len(s) : SortRank(s, i) = k]]

RECURSIVE SumScores(_)
SumScores(s) == IF s = <<>> THEN 0 ELSE Head(s).score + SumScores(Tail(s))

\* Math.floor(sum / n)
MathFloorRatio(sum, n) == sum \div n

\* Math.round(sum / n) for sum >= 0, n > 0: a half goes up
MathRoundRatio(sum, n) == (2 * sum + n) \div (2 * n)

\* the mean over the files that could be read
meanScoreOfReadable(fileScores) ==
    LET scored == SelectSeq(fileScores, LAMBDA f : f.issues # <<"file unreadable">>)
    IN  IF Len(scored) > 0 THEN MathRoundRatio(SumScores(scored), Len(scored)) ELSE 100

meanScore(fileScores) ==
    IF Len(fileScores) > 0 THEN MathRoundRatio(SumScores(fileScores), Len(fileScores)) ELSE 100

\* the three recommendation templates
Recommendation(kind, issue, path) == [kind |-> kind, issue |-> issue, path |-> path]
SplitFirst(path) == Recommendation("split P into smaller files first (biggest win)", "", path)
IssueIn(issue, path) == Recommendation("I in P", issue, path)
AddTests == Recommendation("add test files for untested modules", "", "")

\* slice(from): everything after the first `from` elements
SliceToEnd(s, from, to) == IF from >= Len(s) THEN <<>> ELSE SubSeq(s, from + 1, Len(s))

\* worst.slice(1, 3)
Slice(s, from, to) ==
    IF from >= Len(s) THEN <<>> ELSE SubSeq(s, from + 1, IF to < Len(s) THEN to ELSE Len(s))

recommendationsOf(fileScores, overall) ==
    LET worst == SelectSeq(fileScores, LAMBDA f : f.score < 40)
        first == IF Len(worst) > 0 THEN <<SplitFirst(worst[1].path)>> ELSE <<>>
        next  == SelectSeq(Slice(worst, 1, 3), LAMBDA f : Len(f.issues) > 0)
        calls == [i \in 1..Len(next) |-> IssueIn(next[i].issues[1], next[i].path)]
        recs  == first \o calls
    IN  IF Len(recs) = 0 /\ overall < 80 THEN <<AddTests>> ELSE recs

analyzeDirectory(list) ==
    LET fileScores == SortByScore([i \in 1..Len(list) |-> analyzeFile(list[i])])
        overall == meanScore(fileScores)
    IN  [ files |-> fileScores,
          overall |-> overall,
          recommendations |-> recommendationsOf(fileScores, overall) ]

(***************************************************************************)
(* SpecAnalyzeDirectory: analyzeDirectory on every listing of up to        *)
(* MaxDirFiles files, each of one of four kinds                            *)
(***************************************************************************)
MaxDirFiles == 4

DirPaths ==
    << [path |-> "src/a.ts", dir |-> <<"base", "src">>, base |-> "a", ext |-> ".ts"],
       [path |-> "src/b.ts", dir |-> <<"base", "src">>, base |-> "b", ext |-> ".ts"],
       [path |-> "src/c.js", dir |-> <<"base", "src">>, base |-> "c", ext |-> ".js"],
       [path |-> "lib/d.ts", dir |-> <<"base", "lib">>, base |-> "d", ext |-> ".ts"],
       [path |-> "lib/e.js", dir |-> <<"base", "lib">>, base |-> "e", ext |-> ".js"] >>

\* readFileSync throws
UnreadableFile(where) == FileOf(where, FALSE, UnreadableCode, NoFunctions, {})

\* 9 imports, one function of 51 lines, no comment, 501 lines, no test file
LongCoupledFile(where) ==
    FileOf(where, TRUE, [ws |-> 1, imports |-> 9, comments |-> 0, other |-> 500],
           [ok |-> TRUE, functions |-> <<51>>], {})

\* the text of the file the parser throws on, one text per path
UnparsableText(where) ==
    CASE where.base = "a" -> [ws |-> 0, imports |-> 1, comments |-> 5, other |-> 50]
      [] where.base = "b" -> [ws |-> 1, imports |-> 9, comments |-> 0, other |-> 500]
      [] where.base = "c" -> [ws |-> 0, imports |-> 4, comments |-> 16, other |-> 150]
      [] where.base = "d" -> [ws |-> 1, imports |-> 6, comments |-> 1, other |-> 300]
      [] OTHER -> [ws |-> 0, imports |-> 0, comments |-> 0, other |-> 1]

\* the parser throws; no test file
UnparsableFile(where) ==
    FileOf(where, TRUE, UnparsableText(where), [ok |-> FALSE, functions |-> <<>>], {})

\* one short function, a comment line in six, a test file beside the source
TidyFile(where) ==
    FileOf(where, TRUE, [ws |-> 0, imports |-> 0, comments |-> 1, other |-> 5],
           [ok |-> TRUE, functions |-> <<5>>],
           {PathOf(where.dir, where.base, "test", where.ext)})

KindNames == {"unreadable", "long and coupled", "unparsable", "tidy"}

FileOfKind(kind, where) ==
    CASE kind = "unreadable" -> UnreadableFile(where)
      [] kind = "long and coupled" -> LongCoupledFile(where)
      [] kind = "unparsable" -> UnparsableFile(where)
      [] kind = "tidy" -> TidyFile(where)

\* the listings of n distinct paths, in every order
PathLists(n) ==
    {l \in [1..n -> 1..Len(DirPaths)] : \A i, j \in 1..n : i # j => l[i] # l[j]}

Listing(paths, kinds) == [i \in 1..Len(paths) |-> FileOfKind(kinds[i], DirPaths[paths[i]])]

InitAnalyzeDirectory ==
    /\ \E n \in 0..MaxDirFiles : \E l \in PathLists(n) : \E k \in [1..n -> KindNames] :
            dirArg = Listing(l, k)
    /\ dirRet = NoScore
    /\ RiskIdle
    /\ ScoreIdle
    /\ RunIdle
    /\ MainIdle
    /\ TextIdle
    /\ DensityIdle
    /\ OverlapIdle

CallAnalyzeDirectory ==
    /\ dirRet = NoScore
    /\ dirRet' = analyzeDirectory(dirArg)
    /\ UNCHANGED <<dirArg, riskVars, scoreVars, runVars, mainVars, textVars, densityVars, overlapVars>>

NextAnalyzeDirectory == CallAnalyzeDirectory

SpecAnalyzeDirectory == InitAnalyzeDirectory /\ [][NextAnalyzeDirectory]_vars

(***************************************************************************)
(* Claims about analyzeDirectory                                           *)
(***************************************************************************)
DirReturned == dirRet # NoScore

\* the files of the listing readFileSync can and cannot read
ReadableOf(list) == SelectSeq(list, LAMBDA f : f.readable)
UnreadableOf(list) == SelectSeq(list, LAMBDA f : ~f.readable)

\* the record analyzeDirectory returns for the file at a path
ScoreOfPath(path) == CHOOSE r \in Range(dirRet.files) : r.path = path

RECURSIVE SumOfReturnedScores(_)
SumOfReturnedScores(list) ==
    IF list = <<>> THEN 0
    ELSE ScoreOfPath(Head(list).path).score + SumOfReturnedScores(Tail(list))

\* C11: a file that cannot be read gets score 0, issues exactly
\* <<"file unreadable">> and no signals; every other file of the list is still
\* scored as analyzeFile scores it alone, and the repo-wide mean counts the
\* unreadable file as a 0 among all the files of the list.
C11_UnreadableIsolated ==
    DirReturned =>
        /\ Len(dirRet.files) = Len(dirArg)
        /\ \A i \in 1..Len(dirArg) :
              /\ \E r \in Range(dirRet.files) : r.path = dirArg[i].path
              /\ ~dirArg[i].readable =>
                    ScoreOfPath(dirArg[i].path) =
                        [path |-> dirArg[i].path, score |-> 0, issues |-> <<"file unreadable">>]
              /\ dirArg[i].readable =>
                    /\ ScoreOfPath(dirArg[i].path) = analyzeFile(dirArg[i])
                    /\ "signals" \in DOMAIN ScoreOfPath(dirArg[i].path)
        /\ Len(dirArg) > 0 =>
              2 * Len(dirArg) * dirRet.overall - 2 * SumOfReturnedScores(ReadableOf(dirArg))
                    \in (1 - Len(dirArg))..Len(dirArg)

\* an unreadable file listed between a tidy file and an unparsable one:
\* (100 + 0 + 72) / 3 rounds to 57
C11_Witness ==
    /\ DirReturned
    /\ Len(dirArg) = 3
    /\ dirArg[1] = TidyFile(DirPaths[3])
    /\ dirArg[2] = UnreadableFile(DirPaths[2])
    /\ dirArg[3] = UnparsableFile(DirPaths[1])
    /\ dirRet.files[1].path = DirPaths[2].path
    /\ dirRet.overall = 57

\* the files of the listing whose parse throws
IsUnparsable(f) == f.readable /\ ~TrimIsEmpty(f.code) /\ ~f.ast.ok

\* C12: a file whose parse fails is scored, not raised on: its record has the
\* function-length axis at its zero-function value 100, the coupling, comment and
\* size axes computed from the import count, comment lines and total lines of
\* the raw text, the score of the five-axis weighted formula, and every other
\* file of the listing still has its record.
C12_ParseFailureIsolated ==
    DirReturned =>
        /\ Len(dirRet.files) = Len(dirArg)
        /\ \A i \in 1..Len(dirArg) :
              /\ \E r \in Range(dirRet.files) : r.path = dirArg[i].path
              /\ IsUnparsable(dirArg[i]) =>
                    LET r == ScoreOfPath(dirArg[i].path)
                        text == dirArg[i].code
                        lines == text.ws + text.imports + text.comments + text.other
                    IN  /\ "signals" \in DOMAIN r
                        /\ r.signals.functionLength = 100
                        /\ r.signals.coupling = scoreCoupling(text.imports)
                        /\ r.signals.commentDensity = scoreCommentDensity(text.comments, lines)
                        /\ r.signals.fileSize = scoreFileSize(lines)
                        /\ r.signals.testCoverage = 0
                        /\ 100 * r.score - (3000 + 25 * r.signals.coupling
                                + 10 * r.signals.commentDensity + 10 * r.signals.fileSize)
                              \in -49..50

\* the unparsable src/b.ts (9 imports, 510 lines: 30 + 0 + 0 + 1 + 0 = 31, high
\* coupling) listed before a tidy file and after a long one
C12_Witness ==
    /\ DirReturned
    /\ Len(dirArg) = 3
    /\ dirArg[1] = LongCoupledFile(DirPaths[4])
    /\ dirArg[2] = UnparsableFile(DirPaths[2])
    /\ dirArg[3] = TidyFile(DirPaths[1])
    /\ dirRet.files[2].path = "src/b.ts"
    /\ dirRet.files[2].score = 31
    /\ dirRet.files[2].issues = <<"high coupling", "extract shared utils">>
    /\ dirRet.files[3].score = 100

(***************************************************************************)
(* Claims about analyzeFile's top issue                                    *)
(***************************************************************************)
\* the five axes in their fixed order, and the issue each one names
AxisOrder == <<"functionLength", "coupling", "testCoverage", "commentDensity", "fileSize">>
AxisIssue ==
    [ functionLength |-> "function too long", coupling |-> "high coupling",
      testCoverage |-> "no tests", commentDensity |-> "low comments",
      fileSize |-> "file too large" ]

\* C13: the first entry of issues names the axis with the lowest sub-score, the
\* earliest in the order function length, coupling, tests, comments, size when
\* several tie for it; when the lowest sub-score is 70 or more the issues list
\* is empty.
C13_TopIssue ==
    (fileRet # NoScore /\ fileArg.readable) =>
        LET s == fileRet.signals
            lowest == CHOOSE v \in {s[a] : a \in Range(AxisOrder)} :
                          \A a \in Range(AxisOrder) : v <= s[a]
        IN  IF lowest >= 70
            THEN fileRet.issues = <<>>
            ELSE /\ Len(fileRet.issues) >= 1
                 /\ \E k \in 1..Len(AxisOrder) :
                      /\ s[AxisOrder[k]] = lowest
                      /\ \A j \in 1..(k - 1) : s[AxisOrder[j]] > lowest
                      /\ fileRet.issues[1] = AxisIssue[AxisOrder[k]]

\* function length and comments tie at 40 below coupling, tests and size: the
\* earlier of the two, function length, is the issue
C13_Witness ==
    /\ fileRet # NoScore
    /\ fileArg.readable
    /\ fileRet.signals = [functionLength |-> 40, coupling |-> 70, testCoverage |-> 100,
                          commentDensity |-> 40, fileSize |-> 100]
    /\ fileRet.issues = <<"function too long", "split into smaller functions">>

\* C14: overall is the arithmetic mean of the returned per-file scores rounded to
\* the nearest integer (a half going up), and 100 for an empty list; it lies
\* between the lowest and the highest per-file score and within 0..100.
C14_OverallIsMean ==
    DirReturned =>
        LET n == Len(dirRet.files)
            total == SumOfReturnedScores(dirArg)
        IN  /\ n = Len(dirArg)
            /\ n = 0 => dirRet.overall = 100
            /\ n > 0 =>
                  /\ 2 * n * dirRet.overall - 2 * total \in (1 - n)..n
                  /\ \E i \in 1..n : dirRet.files[i].score <= dirRet.overall
                  /\ \E i \in 1..n : dirRet.files[i].score >= dirRet.overall
            /\ dirRet.overall \in 0..100

\* scores 0 and 1: the mean 0.5 is rounded up to 1
C14_Witness ==
    /\ DirReturned
    /\ Len(dirRet.files) = 2
    /\ dirRet.files[1].score = 0
    /\ dirRet.files[2].score = 1
    /\ dirRet.overall = 1

\* the path the "split ... first (biggest win)" recommendation of a result cites
CitedPath(res) ==
    IF res.recommendations # <<>> /\ res.recommendations[1].kind = SplitFirst("").kind
    THEN res.recommendations[1].path
    ELSE "none"

NonDecreasing(fs) == \A i, j \in 1..Len(fs) : i < j => fs[i].score <= fs[j].score

\* the same files passed in another order
Reorderings(list) ==
    { [i \in 1..Len(list) |-> list[p[i]]] :
        p \in {q \in [1..Len(list) -> 1..Len(list)] :
                  \A i, j \in 1..Len(list) : i # j => q[i] # q[j]} }

\* C15 as stated: the files are returned in non-decreasing score order, the file
\* cited is the first of that order, and the same files passed in any other
\* order have the same file cited.
C15_CitedBySortOrder ==
    DirReturned =>
        /\ NonDecreasing(dirRet.files)
        /\ CitedPath(dirRet) # "none" => CitedPath(dirRet) = dirRet.files[1].path
        /\ \A other \in Reorderings(dirArg) :
              CitedPath(analyzeDirectory(other)) = CitedPath(dirRet)

\* C15, amended: the files are returned in non-decreasing score order; a file is
\* cited exactly when some file scores below 40, and it is the first file of the
\* returned order: a file of the lowest score, and among the files of the
\* lowest score the one passed in first.
C15_CitedIsFirstOfOrder ==
    DirReturned =>
        /\ NonDecreasing(dirRet.files)
        /\ (CitedPath(dirRet) # "none") <=> (\E r \in Range(dirRet.files) : r.score < 40)
        /\ CitedPath(dirRet) # "none" =>
              /\ CitedPath(dirRet) = dirRet.files[1].path
              /\ \E k \in 1..Len(dirArg) :
                    /\ dirArg[k].path = CitedPath(dirRet)
                    /\ \A j \in 1..Len(dirArg) :
                          ScoreOfPath(dirArg[k].path).score <= ScoreOfPath(dirArg[j].path).score
                    /\ \A j \in 1..(k - 1) :
                          ScoreOfPath(dirArg[j].path).score > ScoreOfPath(dirArg[k].path).score

\* src/b.ts and src/a.ts tie at score 1 and src/b.ts is passed in first: it is
\* the one cited
C15_Witness ==
    /\ DirReturned
    /\ Len(dirArg) = 3
    /\ dirArg[1] = TidyFile(DirPaths[3])
    /\ dirArg[2] = LongCoupledFile(DirPaths[2])
    /\ dirArg[3] = LongCoupledFile(DirPaths[1])
    /\ dirRet.files[1].score = 1
    /\ dirRet.files[2].score = 1
    /\ CitedPath(dirRet) = "src/b.ts"

\* the returned files scoring below 40, worst first
WorstReturned == SelectSeq(dirRet.files, LAMBDA f : f.score < 40)

\* C16: with a file below 40 the recommendations are the "split <path> first"
\* entry for the lowest-scoring file, then one "<top issue> in <path>" entry for
\* each of the next two files below 40 in worst-first order, and nothing else;
\* with no file below 40 they are the single "add test files" nudge when overall
\* is below 80 and empty otherwise; there are never more than 3.
C16_Recommendations ==
    DirReturned =>
        LET recs == dirRet.recommendations
            worst == WorstReturned
            calls == (IF Len(worst) < 3 THEN Len(worst) ELSE 3) - 1
        IN  /\ Len(recs) <= 3
            /\ Len(worst) > 0 =>
                  /\ Len(recs) = 1 + calls
                  /\ recs[1] = SplitFirst(worst[1].path)
                  /\ \A i \in 1..calls :
                        recs[1 + i] = IssueIn(worst[1 + i].issues[1], worst[1 + i].path)
            /\ (Len(worst) = 0 /\ dirRet.overall < 80) => recs = <<AddTests>>
            /\ (Len(worst) = 0 /\ dirRet.overall >= 80) => recs = <<>>

\* four files below 40: the unreadable lib/d.ts (0), src/a.ts (1), src/c.js (1)
\* and the unparsable src/b.ts (31), which gets no entry
C16_Witness ==
    /\ DirReturned
    /\ dirArg = << UnparsableFile(DirPaths[2]), LongCoupledFile(DirPaths[1]),
                   UnreadableFile(DirPaths[4]), LongCoupledFile(DirPaths[3]) >>
    /\ Len(WorstReturned) = 4
    /\ dirRet.recommendations =
          << SplitFirst("lib/d.ts"), IssueIn("function too long", "src/a.ts"),
             IssueIn("function too long", "src/c.js") >>

(***************************************************************************)
(* main of the score-policy CLI (src/src/cli.ts:19-52, 76-122)             *)
(***************************************************************************)
\* a number option: absent, or what parseInt(text, 10) made of its value
NoNumber == [given |-> FALSE, nan |-> FALSE, value |-> 0]
NaN == [given |-> TRUE, nan |-> TRUE, value |-> 0]
Number(n) == [given |-> TRUE, nan |-> FALSE, value |-> n]

\* parseInt(text, 10) on the words of the model
parseInt(text) ==
    CASE text = "2" -> Number(2)
      [] text = "50" -> Number(50)
      [] text = "-1" -> Number(-1)
      [] OTHER -> NaN

\* arg.startsWith("-")
StartsWithDash(arg) == arg \in {"--ci", "--help", "--top", "--min-score", "-1"}

DefaultOptions ==
    [dir |-> ".", ci |-> FALSE, help |-> FALSE, top |-> NoNumber, minScore |-> NoNumber]

\* the while loop of parseArgs from position i on
RECURSIVE parseArgsFrom(_, _, _)
parseArgsFrom(args, i, opts) ==
    IF i > Len(args) THEN opts
    ELSE LET arg == args[i]
         IN  IF arg = "--ci" THEN parseArgsFrom(args, i + 1, [opts EXCEPT !.ci = TRUE])
             ELSE IF arg = "--help" THEN parseArgsFrom(args, i + 1, [opts EXCEPT !.help = TRUE])
             ELSE IF arg = "--top" /\ i + 1 <= Len(args)
             THEN parseArgsFrom(args, i + 2, [opts EXCEPT !.top = parseInt(args[i + 1])])
             ELSE IF arg = "--min-score" /\ i + 1 <= Len(args)
             THEN parseArgsFrom(args, i + 2, [opts EXCEPT !.minScore = parseInt(args[i + 1])])
             ELSE IF ~StartsWithDash(arg)
             THEN parseArgsFrom(args, i + 1, [opts EXCEPT !.dir = arg])
             ELSE parseArgsFrom(args, i + 1, opts)

parseArgs(args) == parseArgsFrom(args, 1, DefaultOptions)

\* scanDirectory(dir): the source files under dir, sorted by path; a directory
\* that does not exist has none
scanDirectory(fs, dir) == IF dir \in DOMAIN fs THEN fs[dir] ELSE <<>>

\* result.files.filter((f) => f.score < opts.minScore): nothing is below NaN
filterMinScore(fileScores, minScore) ==
    SelectSeq(fileScores, LAMBDA f : ~minScore.nan /\ f.score < minScore.value)

\* result.files.slice(0, opts.top): a negative end counts from the end of the
\* list, NaN is 0
sliceTop(fileScores, top) ==
    LET n == Len(fileScores)
        end == IF top.nan THEN 0
               ELSE IF top.value < 0 THEN (IF n + top.value < 0 THEN 0 ELSE n + top.value)
               ELSE IF top.value > n THEN n ELSE top.value
    IN  SubSeq(fileScores, 1, end)

\* an exit code that ignores whether --ci was given
exitCodeUngated(ci, overall) == IF overall < 60 THEN 1 ELSE 0

\* opts.ci ? (result.overall < 60 ? 1 : 0) : 0
exitCodeOf(ci, overall) == IF ci THEN (IF overall < 60 THEN 1 ELSE 0) ELSE 0

EmptyResult == [files |-> <<>>, overall |-> 100, recommendations |-> <<>>]

main(args, fs) ==
    LET opts == parseArgs(args)
        found == scanDirectory(fs, opts.dir)
        full == analyzeDirectory(found)
        byScore == IF opts.minScore.given
                   THEN [full EXCEPT !.files = filterMinScore(full.files, opts.minScore)]
                   ELSE full
        shown == IF opts.top.given
                 THEN [byScore EXCEPT !.files = sliceTop(byScore.files, opts.top)]
                 ELSE byScore
    IN  IF opts.help THEN [exitCode |-> 0, output |-> "help", result |-> EmptyResult]
        ELSE IF Len(found) = 0
        THEN [exitCode |-> IF opts.ci THEN 0 ELSE 0, output |-> "no source files found",
              result |-> EmptyResult]
        ELSE [exitCode |-> exitCodeOf(opts.ci, shown.overall), output |-> "report",
              result |-> shown]

(***************************************************************************)
(* SpecMain: main on every argument list of up to MaxArgs words, run in a  *)
(* directory that is empty or holds three source files                     *)
(***************************************************************************)
MaxArgs == 3

ArgWords == {"--ci", "--help", "--top", "--min-score", "2", "50", "-1", "x"}

\* the paths of the working directory's files, as scanDirectory sorts them
CliPaths == <<DirPaths[4], DirPaths[1], DirPaths[2]>>

CliKinds == {"long and coupled", "unparsable", "tidy"}

\* the file system: the working directory and nothing else
FileSystems ==
    {[d \in {"."} |-> <<>>]} \cup
    { [d \in {"."} |-> [i \in 1..Len(CliPaths) |-> FileOfKind(k[i], CliPaths[i])]] :
        k \in [1..Len(CliPaths) -> CliKinds] }

InitMain ==
    /\ \E n \in 0..MaxArgs : \E args \in [1..n -> ArgWords] : \E fs \in FileSystems :
            mainArg = [args |-> args, fs |-> fs]
    /\ mainRet = NoScore
    /\ RiskIdle
    /\ ScoreIdle
    /\ RunIdle
    /\ DirIdle
    /\ TextIdle
    /\ DensityIdle
    /\ OverlapIdle

CallMain ==
    /\ mainRet = NoScore
    /\ mainRet' = main(mainArg.args, mainArg.fs)
    /\ UNCHANGED <<mainArg, riskVars, scoreVars, runVars, dirVars, textVars, densityVars, overlapVars>>

NextMain == CallMain

SpecMain == InitMain /\ [][NextMain]_vars

(***************************************************************************)
(* Claims about main                                                       *)
(***************************************************************************)
MainReturned == mainRet # NoScore

\* what the run was asked and what a scan without filters finds
AskedOptions == parseArgs(mainArg.args)
FoundFiles == scanDirectory(mainArg.fs, AskedOptions.dir)
FullScan == analyzeDirectory(FoundFiles)

\* C17: main returns exit code 1 exactly when the --ci gate is on and the
\* overall score of the scan is below 60; it returns 0 in every other case: an
\* overall of 60 or more, no --ci, --help, or no source file found.
C17_ExitCode ==
    MainReturned =>
        /\ mainRet.exitCode \in {0, 1}
        /\ mainRet.exitCode = 1 <=>
              /\ AskedOptions.ci
              /\ ~AskedOptions.help
              /\ Len(FoundFiles) > 0
              /\ FullScan.overall < 60
        /\ "--ci" \notin Range(mainArg.args) => mainRet.exitCode = 0
        /\ (\E i \in 1..Len(mainArg.args) : mainArg.args[i] = "--help" /\
                (i = 1 \/ mainArg.args[i - 1] \notin {"--top", "--min-score"}))
              => mainRet.exitCode = 0

\* --ci --top 2 on three files of overall below 60: exit code 1, two files shown
C17_Witness ==
    /\ MainReturned
    /\ mainArg.args = <<"--ci", "--top", "2">>
    /\ mainRet.exitCode = 1
    /\ mainRet.output = "report"
    /\ Len(mainRet.result.files) = 2
    /\ mainRet.result.overall < 60

\* the files of the full scan that --min-score N keeps
KeptByMinScore ==
    IF AskedOptions.minScore.given /\ ~AskedOptions.minScore.nan
    THEN SelectSeq(FullScan.files, LAMBDA f : f.score < AskedOptions.minScore.value)
    ELSE FullScan.files

\* C18: the filters change only the reported file list: --min-score N keeps
\* exactly the files scoring below N, --top K then keeps the first K of those in
\* worst-first order (at most K files, none scoring higher than a file that was
\* cut), and overall, recommendations and the exit code are those of the
\* unfiltered scan.
C18_FiltersOnlyFiles ==
    (MainReturned /\ mainRet.output = "report"
        /\ ~AskedOptions.minScore.nan /\ ~AskedOptions.top.nan) =>
        LET shown == mainRet.result.files
            K == AskedOptions.top.value
        IN  /\ mainRet.result.overall = FullScan.overall
            /\ mainRet.result.recommendations = FullScan.recommendations
            /\ mainRet.exitCode = exitCodeOf(AskedOptions.ci, FullScan.overall)
            /\ ~AskedOptions.top.given => shown = KeptByMinScore
            /\ AskedOptions.top.given =>
                  /\ Len(shown) <= K
                  /\ Len(shown) <= Len(KeptByMinScore)
                  /\ shown = SubSeq(KeptByMinScore, 1, Len(shown))
                  /\ Len(shown) = K \/ Len(shown) = Len(KeptByMinScore)
                  /\ \A i \in 1..Len(shown) : \A j \in (Len(shown) + 1)..Len(KeptByMinScore) :
                        shown[i].score <= KeptByMinScore[j].score

(***************************************************************************)
(* SpecGenerateBriefing: generateBriefing on every analysis within the     *)
(* bounds of SpecCalculateRisk                                             *)
(***************************************************************************)
\* the module-scope variables a file may declare
GlobalNames == <<"config", "cache", "state", "counter", "registry", "queue">>

Prefix(s, n) == SubSeq(s, 1, IF n < Len(s) THEN n ELSE Len(s))

AssertionSamples == {0, 4, 5}

BriefingArgOf(incoming, untested, circular, globals, missing, assertions) ==
    [ file |-> SrcHubTs,
      incoming_deps |-> incoming,
      incoming_files |-> Prefix(GraphOrder, incoming),
      downstream_untested |-> Prefix(GraphOrder, untested),
      circular_deps |-> Prefix(<<SrcHubJs, SrcI1, SrcI3>>, circular),
      global_mutations |-> [i \in 1..globals |-> Global(Prefix(GlobalNames, globals)[i], i)],
      missing_return_types |-> missing,
      test_coverage |-> [has_test_file |-> assertions > 0, assertion_count |-> assertions],
      risk_level |-> "low" ]

InitGenerateBriefing ==
    /\ \E incoming \in 0..MaxIncomingDeps, untested \in 0..MaxDownstreamUntested,
          circular \in 0..MaxCircularDeps, globals \in 0..MaxGlobalMutations,
          missing \in 0..MaxMissingReturnTypes, assertions \in AssertionSamples :
            briefArg = BriefingArgOf(incoming, untested, circular, globals, missing, assertions)
    /\ briefRet = <<>>
    /\ ItemsIdle
    /\ DensityIdle
    /\ OverlapIdle
    /\ RiskIdle
    /\ ScoreIdle
    /\ RunIdle
    /\ DirIdle
    /\ MainIdle

CallGenerateBriefing ==
    /\ briefRet = <<>>
    /\ briefRet' = generateBriefing(briefArg)
    /\ UNCHANGED <<briefArg, itemsArg, itemsRet, riskVars, scoreVars, runVars, dirVars, mainVars,
                 densityVars, overlapVars>>

NextGenerateBriefing == CallGenerateBriefing

SpecGenerateBriefing == InitGenerateBriefing /\ [][NextGenerateBriefing]_vars

\* the six fragments in their fixed order, and when each applies
FragmentOrder ==
    << "editing this affects N file(s).", "downstream without tests",
       "read X before touching this file.", "avoid X - shared state.",
       "N functions lack return types.", "write tests before editing" >>

FragmentApplies(kind, a) ==
    CASE kind = FragmentOrder[1] -> a.incoming_deps > 0
      [] kind = FragmentOrder[2] -> a.downstream_untested # <<>>
      [] kind = FragmentOrder[3] -> a.circular_deps # <<>>
      [] kind = FragmentOrder[4] -> a.global_mutations # <<>>
      [] kind = FragmentOrder[5] -> a.missing_return_types > 0
      [] kind = FragmentOrder[6] -> a.incoming_deps > 5 /\ a.test_coverage.assertion_count < 5

\* C19: the briefing is the applicable fragments in the fixed order (impact
\* notice, downstream-untested warning, circular read-first hint, shared-state
\* warning naming every mutated identifier, missing-return-type count,
\* write-tests imperative) and no other; it is exactly "safe to edit." if and
\* only if none applies.
C19_BriefingFragments ==
    briefRet # <<>> =>
        LET applicable == SelectSeq(FragmentOrder, LAMBDA k : FragmentApplies(k, briefArg))
            kinds == [i \in 1..Len(briefRet) |-> briefRet[i].kind]
        IN  /\ applicable # <<>> => kinds = applicable
            /\ applicable = <<>> <=> kinds = <<"safe to edit.">>
            /\ \A i \in 1..Len(briefRet) :
                  /\ briefRet[i].kind = FragmentOrder[1] => briefRet[i].n = briefArg.incoming_deps
                  /\ briefRet[i].kind = FragmentOrder[4] =>
                        briefRet[i].idents =
                            [j \in 1..Len(briefArg.global_mutations) |->
                                briefArg.global_mutations[j].name]
                  /\ briefRet[i].kind = FragmentOrder[5] =>
                        briefRet[i].n = briefArg.missing_return_types

\* all six fragments apply: six importers, four without tests, a cycle, three
\* module-scope variables, two untyped exports and four assertions
C19_Witness ==
    /\ briefRet # <<>>
    /\ briefArg = BriefingArgOf(6, 4, 1, 3, 2, 4)
    /\ Len(briefRet) = 6
    /\ briefRet[3].kind = "read X before touching this file."
    /\ briefRet[4].idents = <<"config", "cache", "state">>

(***************************************************************************)
(* SpecGenerateActionItems: generateActionItems on every list of up to     *)
(* MaxAnalyses analyses drawn from ActionFiles x ActionProfiles            *)
(***************************************************************************)
MaxAnalyses == 3

\* src/i1.ts and lib/i1.ts share a basename
ActionFiles == {SrcHubTs, SrcI1, LibI1}

\* what an analysis contributes: an item of every class, of one class, of none
ActionProfiles ==
    {"all", "untested many", "circular", "globals", "globals few importers", "none"}

ActionAnalysis(file, profile) ==
    LET untested == CASE profile = "all" -> 1
                      [] profile = "untested many" -> 3
                      [] OTHER -> 0
        circular == IF profile \in {"all", "circular"} THEN 1 ELSE 0
        globals == IF profile \in {"all", "globals", "globals few importers"} THEN 3 ELSE 0
        incoming == CASE profile \in {"all", "globals", "untested many"} -> 3
                      [] profile = "globals few importers" -> 2
                      [] OTHER -> 0
    IN  [BriefingArgOf(incoming, untested, circular, globals, 0, 0) EXCEPT !.file = file]

InitGenerateActionItems ==
    /\ \E n \in 0..MaxAnalyses :
         \E f \in [1..n -> ActionFiles], p \in [1..n -> ActionProfiles] :
            itemsArg = [i \in 1..n |-> ActionAnalysis(f[i], p[i])]
    /\ itemsRet = NoItems
    /\ BriefIdle
    /\ DensityIdle
    /\ OverlapIdle
    /\ RiskIdle
    /\ ScoreIdle
    /\ RunIdle
    /\ DirIdle
    /\ MainIdle

CallGenerateActionItems ==
    /\ itemsRet = NoItems
    /\ itemsRet' = generateActionItems(itemsArg)
    /\ UNCHANGED <<itemsArg, briefArg, briefRet, riskVars, scoreVars, runVars, dirVars, mainVars,
                 densityVars, overlapVars>>

NextGenerateActionItems == CallGenerateActionItems

SpecGenerateActionItems == InitGenerateActionItems /\ [][NextGenerateActionItems]_vars

ItemsReturned == itemsRet # NoItems

\* the priority class of an item: 1 downstream untested, 2 circular, 3 global state
ItemClass(item) ==
    CASE item.kind = "write tests for X before editing T (N files depend on it)" -> 1
      [] item.kind = "read X before touching T - circular dependency" -> 2
      [] item.kind = "trace usages of X in T - shared by N files" -> 3

\* the distinct candidate items of a list of analyses
CandidateItems(list) ==
    LET each == Range(list)
    IN  {UntestedItem(a) : a \in {b \in each : b.downstream_untested # <<>> /\ b.incoming_deps > 0}}
        \cup {CircularItem(a) : a \in {b \in each : b.circular_deps # <<>>}}
        \cup {GlobalsItem(a) : a \in {b \in each : b.global_mutations # <<>> /\ b.incoming_deps > 2}}

\* C20: generateActionItems returns at most 5 items, no two equal, every
\* downstream-untested item before every circular-dependency item before every
\* global-state item; the items are the distinct candidates, and when more
\* than 5 exist the dropped ones are last in the priority order.
C20_ActionItems ==
    ItemsReturned =>
        LET candidates == CandidateItems(itemsArg)
            kept == Range(itemsRet)
        IN  /\ Len(itemsRet) <= 5
            /\ \A i, j \in 1..Len(itemsRet) : i # j => itemsRet[i] # itemsRet[j]
            /\ \A i, j \in 1..Len(itemsRet) :
                  i < j => ItemClass(itemsRet[i]) <= ItemClass(itemsRet[j])
            /\ kept \subseteq candidates
            /\ Cardinality(candidates) <= 5 => kept = candidates
            /\ Cardinality(candidates) > 5 => Len(itemsRet) = 5
            /\ \A c \in candidates \ kept : \A k \in kept : ItemClass(k) <= ItemClass(c)

\* src/i1.ts, lib/i1.ts and src/hub.ts each contribute an item of every class:
\* nine items pushed, six distinct (the i1 files share their texts), five kept
\* and the global-state item of hub.ts dropped
C20_Witness ==
    /\ ItemsReturned
    /\ itemsArg = <<ActionAnalysis(SrcI1, "all"), ActionAnalysis(LibI1, "all"),
                    ActionAnalysis(SrcHubTs, "all")>>
    /\ Cardinality(CandidateItems(itemsArg)) = 6
    /\ Len(itemsRet) = 5
    /\ ItemClass(itemsRet[2]) = 1
    /\ ItemClass(itemsRet[3]) = 2
    /\ ItemClass(itemsRet[5]) = 3
    /\ GlobalsItem(itemsArg[3]) \notin Range(itemsRet)

(***************************************************************************)
(* Claims about the result of analyzeFiles                                 *)
(***************************************************************************)
CountLevel(level) == Cardinality({i \in 1..Len(result.files) : result.files[i].risk_level = level})

LevelLabel(level) == IF level = "high" THEN "high risk" ELSE level

\* the count the summary gives for a level, 0 if it does not mention the level
SummaryCount(level) ==
    LET at == {i \in 1..Len(result.summary.parts) :
                    result.summary.parts[i].label = LevelLabel(level)}
    IN  IF at = {} THEN 0 ELSE result.summary.parts[CHOOSE i \in at : TRUE].count

\* C21: the summary is the "all clear - safe to start" sentence if and only if
\* no file is high or medium risk (a run over zero files included); otherwise
\* it lists the non-zero counts of high, medium and low files, which add up to
\* the number of analyzed files, and gives high + medium as the number needing
\* attention, in the singular exactly when that number is 1.
C21_Summary ==
    RunDone =>
        LET high == CountLevel("high")
            medium == CountLevel("medium")
            low == CountLevel("low")
            sum == result.summary
        IN  /\ sum.kind = "analyzed. all clear - safe to start." <=> high + medium = 0
            /\ high + medium = 0 => sum.n = Len(files)
            /\ high + medium > 0 =>
                  /\ sum.kind = "need attention before starting your session."
                  /\ \A i \in 1..Len(sum.parts) : sum.parts[i].count > 0
                  /\ \A i, j \in 1..Len(sum.parts) :
                        i < j => sum.parts[i].label # sum.parts[j].label
                  /\ SummaryCount("high") = high
                  /\ SummaryCount("medium") = medium
                  /\ SummaryCount("low") = low
                  /\ high + medium + low = Len(files)
                  /\ sum.n = high + medium
                  /\ sum.singular <=> sum.n = 1

\* one medium file and one low file: "1 medium. 1 low. 1 file needs attention"
C21_Witness ==
    /\ RunDone
    /\ Len(result.files) = 2
    /\ CountLevel("medium") = 1
    /\ CountLevel("low") = 1
    /\ result.summary.singular
    /\ result.summary.n = 1
    /\ Len(result.summary.parts) = 2

LevelRank(level) == CASE level = "high" -> 0 [] level = "medium" -> 1 [] level = "low" -> 2

\* C22: the returned files are ordered worst first by their final risk levels,
\* those the second pass recomputed: every high-risk file precedes every
\* medium-risk file, which precedes every low-risk file.
C22_WorstFirst ==
    RunDone =>
        /\ \A i \in 1..Len(result.files) :
              result.files[i].risk_level = calculateRisk(result.files[i])
        /\ \A i, j \in 1..Len(result.files) :
              i < j => LevelRank(result.files[i].risk_level)
                          <= LevelRank(result.files[j].risk_level)

\* src/i1.ts (medium) was scanned before src/hub.ts, which the second pass
\* raised to high on its untested importers: hub.ts comes first
C22_Witness ==
    /\ RunDone
    /\ files = <<pathResolve(world.root, SrcI1), pathResolve(world.root, SrcHubTs)>>
    /\ result.files[1].file = SrcHubTs
    /\ result.files[1].risk_level = "high"
    /\ Len(result.files[1].downstream_untested) > 2
    /\ result.files[1].circular_deps = <<>>
    /\ Len(result.files[1].global_mutations) <= 2
    /\ result.files[1].missing_return_types <= 5
    /\ result.files[2].risk_level = "medium"

(***************************************************************************)
(* Claims about the sub-scores of analyzeFile                              *)
(***************************************************************************)
Scored == fileRet # NoScore /\ fileArg.readable /\ ~TrimIsEmpty(fileArg.code)

\* the discovery candidates as stated: <base>.test<ext>, <base>.spec<ext>, a
\* sibling __tests__/<base><ext>, and the mirrored tests/ and test/ directories
\* with and without the directory-mirrored subpath
StatedCandidates(file) ==
    LET parentDir == DirName(file.dir)
        relDir == BaseName(file.dir)
    IN  { PathOf(file.dir, file.base, "test", file.ext),
          PathOf(file.dir, file.base, "spec", file.ext),
          PathOf(file.dir \o <<"__tests__">>, file.base, "", file.ext),
          PathOf(parentDir \o <<"tests">>, file.base, "test", file.ext),
          PathOf(parentDir \o <<"test">>, file.base, "test", file.ext),
          PathOf(parentDir \o <<"tests", relDir>>, file.base, "test", file.ext),
          PathOf(parentDir \o <<"test", relDir>>, file.base, "test", file.ext) }

\* C23: the testCoverage sub-score of a scored file is 100 if one of the stated
\* discovery candidates exists (<base>.test<ext>, <base>.spec<ext>, a sibling
\* __tests__/<base><ext>, the mirrored tests/ and test/ directories) and 0
\* otherwise.
C23_TestDiscovery ==
    Scored =>
        fileRet.signals.testCoverage =
            (IF StatedCandidates(fileArg) \cap fileArg.disk # {} THEN 100 ELSE 0)

\* C24: the coupling sub-score is banded on the import count with strict
\* boundaries: more than 8 imports gives 0, 6 to 8 gives 40, 4 or 5 gives 70,
\* and 3 or fewer gives 100.
C24_CouplingBands ==
    Scored =>
        LET imports == fileArg.code.imports
            coupling == fileRet.signals.coupling
        IN  /\ imports \in 0..3 <=> coupling = 100
            /\ imports \in 4..5 <=> coupling = 70
            /\ imports \in 6..8 <=> coupling = 40
            /\ imports > 8 <=> coupling = 0

\* eight imports are still in the 40 band
C24_Witness ==
    /\ Scored
    /\ fileArg.code.imports = 8
    /\ fileRet.signals.coupling = 40

\* the functions the adapter hands to analyzeFile
DetectedFunctions == IF fileArg.ast.ok THEN fileArg.ast.functions ELSE <<>>

MaxCommentLines == 21

TotalLineSamples == {0, 10, 20, 100, 200}

DensityArgs ==
    {a \in [commentLines : 0..MaxCommentLines, totalLines : TotalLineSamples] :
        a.commentLines <= a.totalLines}

InitScoreCommentDensity ==
    /\ \E a \in DensityArgs, b \in DensityArgs : densityArg = <<a, b>>
    /\ densityRet = <<>>
    /\ RiskIdle
    /\ ScoreIdle
    /\ RunIdle
    /\ DirIdle
    /\ MainIdle
    /\ TextIdle
    /\ OverlapIdle

CallScoreCommentDensity ==
    /\ densityRet = <<>>
    /\ densityRet' = [i \in 1..2 |->
                        scoreCommentDensity(densityArg[i].commentLines, densityArg[i].totalLines)]
    /\ UNCHANGED <<densityArg, riskVars, scoreVars, runVars, dirVars, mainVars, textVars,
                   overlapVars>>

NextScoreCommentDensity == CallScoreCommentDensity

SpecScoreCommentDensity == InitScoreCommentDensity /\ [][NextScoreCommentDensity]_vars

DensityReturned == densityRet # <<>>

\* the band of a ratio c / t, t > 0, compared without division
DensityBand(c, t) ==
    CASE 10 * c > t -> 100
      [] 10 * c <= t /\ 20 * c > t -> 70
      [] 20 * c <= t /\ 100 * c > t -> 40
      [] 100 * c <= t -> 10

\* C26: the comment-density sub-score is 100 when totalLines is 0 or the ratio
\* commentLines/totalLines exceeds 10%, 70 when it exceeds 5%, 40 when it
\* exceeds 1%, else 10; a ratio of exactly 10%, 5% or 1% falls in the lower
\* band; and of two arguments the one with the higher ratio never scores less.
C26_CommentDensityBands ==
    DensityReturned =>
        /\ \A i \in 1..2 :
              LET c == densityArg[i].commentLines
                  t == densityArg[i].totalLines
              IN  /\ t = 0 => densityRet[i] = 100
                  /\ t > 0 => densityRet[i] = DensityBand(c, t)
                  /\ (t > 0 /\ 10 * c = t) => densityRet[i] = 70
                  /\ (t > 0 /\ 20 * c = t) => densityRet[i] = 40
                  /\ (t > 0 /\ 100 * c = t) => densityRet[i] = 10
        /\ (/\ densityArg[1].totalLines > 0
            /\ densityArg[2].totalLines > 0
            /\ densityArg[1].commentLines * densityArg[2].totalLines
                  <= densityArg[2].commentLines * densityArg[1].totalLines)
              => densityRet[1] <= densityRet[2]

\* 10 comment lines of 100 score 70, 5 of 100 score 40
C26_Witness ==
    /\ DensityReturned
    /\ densityArg = <<[commentLines |-> 5, totalLines |-> 100],
                      [commentLines |-> 10, totalLines |-> 100]>>
    /\ densityRet = <<40, 70>>

(***************************************************************************)
(* SpecOverlap: two analyzeFiles runs on one project root, interleaved at  *)
(* their await points.  Each run has its own locals; madgeCache is the     *)
(* module-level variable both read, fill and replace.  The graph provider  *)
(* succeeds and every file is readable.                                    *)
(***************************************************************************)
MaxOverlapFiles == 1

RunIds == {1, 2}

OverlapCandidates == {SrcHubTs, SrcI1}

OverlapLists ==
    UNION { {l \in [1..k -> OverlapCandidates] : \A i, j \in 1..k : i # j => l[i] # l[j]}
            : k \in 0..MaxOverlapFiles }

OverlapWorlds ==
    { World(DepsOf(n, {}, FALSE), TestsOf(<<5>>, u), [globals |-> <<>>, missing |-> 0],
            {}, FALSE) : n \in {0, Len(PlainImporters)}, u \in {0, 3} }

NotStarted ==
    [ pc |-> "idle", files |-> <<>>, idx |-> 0, cur |-> NoArg, analyses |-> <<>>,
      calls |-> 0, result |-> NoArg ]

InitOverlap ==
    /\ world \in OverlapWorlds
    /\ runs = [r \in RunIds |-> NotStarted]
    /\ sharedCache = <<>>
    /\ files = <<>>
    /\ pc = "off"
    /\ idx = 0
    /\ cur = NoArg
    /\ analyses = <<>>
    /\ madgeCache = <<>>
    /\ madgeCalls = 0
    /\ result = NoArg
    /\ RiskIdle
    /\ ScoreIdle
    /\ DirIdle
    /\ MainIdle
    /\ TextIdle
    /\ DensityIdle

OverlapRest ==
    <<world, files, pc, idx, cur, analyses, madgeCache, madgeCalls, result,
      riskVars, scoreVars, dirVars, mainVars, textVars, densityVars>>

\* analyzeFiles(files, projectRoot) is called for run r
StartRunOf(r) ==
    /\ runs[r].pc = "idle"
    /\ \E list \in OverlapLists :
        runs' = [runs EXCEPT ![r] =
                    [@ EXCEPT !.files = [i \in 1..Len(list) |-> pathResolve(world.root, list[i])],
                              !.pc = IF list = <<>> THEN "finish" ELSE "circular",
                              !.idx = IF list = <<>> THEN 0 ELSE 1]]
    /\ UNCHANGED <<sharedCache, OverlapRest>>

\* detectCircularDeps up to its await (analyzer.ts:521-528)
DetectCircularDepsOf(r) ==
    /\ runs[r].pc = "circular"
    /\ runs' = [runs EXCEPT ![r] =
          IF world.root \in DOMAIN sharedCache
          THEN [@ EXCEPT !.cur = [circular_deps |->
                                     circularDepsFrom(sharedCache[world.root], world.root,
                                                      @.files[@.idx]),
                                  incoming |-> NoIncomingDeps],
                         !.pc = "incoming"]
          ELSE [@ EXCEPT !.calls = @ + 1, !.pc = "circular_madge"]]
    /\ UNCHANGED <<sharedCache, OverlapRest>>

\* madge settles inside detectCircularDeps (analyzer.ts:525-552): the result is
\* set in the map madgeCache names at that moment
MadgeSettlesCircularOf(r) ==
    /\ runs[r].pc = "circular_madge"
    /\ sharedCache' = (world.root :> MadgeResultOf(world.deps)) @@ sharedCache
    /\ runs' = [runs EXCEPT ![r] =
          [@ EXCEPT !.cur = [circular_deps |->
                                circularDepsFrom(MadgeResultOf(world.deps), world.root,
                                                 @.files[@.idx]),
                             incoming |-> NoIncomingDeps],
                    !.pc = "incoming"]]
    /\ UNCHANGED OverlapRest

\* detectIncomingDepsDetails up to its await (analyzer.ts:555-562)
DetectIncomingDepsOf(r) ==
    /\ runs[r].pc = "incoming"
    /\ runs' = [runs EXCEPT ![r] =
          IF world.root \in DOMAIN sharedCache
          THEN [@ EXCEPT !.cur.incoming =
                            incomingDepsFrom(sharedCache[world.root], world.root,
                                             runs[r].files[runs[r].idx]),
                         !.pc = "facts"]
          ELSE [@ EXCEPT !.calls = @ + 1, !.pc = "incoming_madge"]]
    /\ UNCHANGED <<sharedCache, OverlapRest>>

\* madge settles inside detectIncomingDepsDetails (analyzer.ts:559-584)
MadgeSettlesIncomingOf(r) ==
    /\ runs[r].pc = "incoming_madge"
    /\ sharedCache' = (world.root :> MadgeResultOf(world.deps)) @@ sharedCache
    /\ runs' = [runs EXCEPT ![r] =
          [@ EXCEPT !.cur.incoming =
                        incomingDepsFrom(MadgeResultOf(world.deps), world.root,
                                         runs[r].files[runs[r].idx]),
                    !.pc = "facts"]]
    /\ UNCHANGED OverlapRest

\* the rest of a first-pass iteration (analyzer.ts:691-709)
CollectFactsOf(r) ==
    /\ runs[r].pc = "facts"
    /\ runs' = [runs EXCEPT ![r] =
          [@ EXCEPT !.analyses = Append(@, FirstPassRecord(world, runs[r].files[runs[r].idx],
                                                           runs[r].cur.circular_deps,
                                                           runs[r].cur.incoming)),
                    !.pc = AfterFirstPass(runs[r].idx, Len(runs[r].files)).pc,
                    !.idx = AfterFirstPass(runs[r].idx, Len(runs[r].files)).idx,
                    !.cur = NoArg]]
    /\ UNCHANGED <<sharedCache, OverlapRest>>

\* one iteration of the second pass (analyzer.ts:713-738)
SecondPassOf(r) ==
    /\ runs[r].pc = "second_pass"
    /\ runs' = [runs EXCEPT ![r] =
          [@ EXCEPT !.analyses[runs[r].idx] =
                        SecondPassRecord(world, runs[r].analyses, runs[r].analyses[runs[r].idx]),
                    !.pc = AfterSecondPass(runs[r].idx, Len(runs[r].analyses)).pc,
                    !.idx = AfterSecondPass(runs[r].idx, Len(runs[r].analyses)).idx]]
    /\ UNCHANGED <<sharedCache, OverlapRest>>

\* sort, summary, clearMadgeCache, action items, return (analyzer.ts:740-761)
FinishOf(r) ==
    /\ runs[r].pc = "finish"
    /\ sharedCache' = clearMadgeCache
    /\ runs' = [runs EXCEPT ![r] =
          [@ EXCEPT !.analyses = SortByRisk(@),
                    !.result = [ files |-> SortByRisk(runs[r].analyses),
                                 action_items |-> generateActionItems(SortByRisk(runs[r].analyses)),
                                 summary |-> summaryOf(SortByRisk(runs[r].analyses)) ],
                    !.pc = "done"]]
    /\ UNCHANGED OverlapRest

NextOverlap ==
    \E r \in RunIds :
        \/ StartRunOf(r)
        \/ DetectCircularDepsOf(r)
        \/ MadgeSettlesCircularOf(r)
        \/ DetectIncomingDepsOf(r)
        \/ MadgeSettlesIncomingOf(r)
        \/ CollectFactsOf(r)
        \/ SecondPassOf(r)
        \/ FinishOf(r)

SpecOverlap == InitOverlap /\ [][NextOverlap]_vars

\* run r has a graph query ahead of it
QueriesAhead(r) ==
    \/ runs[r].pc \in {"circular", "circular_madge", "incoming"}
    \/ runs[r].pc \in {"incoming_madge", "facts"} /\ runs[r].idx < Len(runs[r].files)

\* C27: when two analyzeFiles runs on one project root overlap, each run builds
\* the graph at most once, and the cache clear that ends one run never removes
\* the graph while the other run still has queries to make.
C27_OverlapKeepsGraph ==
    /\ [](\A r \in DOMAIN runs : runs[r].calls <= 1)
    /\ [][ \A r \in DOMAIN runs :
              (/\ runs[r].pc = "finish"
               /\ runs'[r].pc = "done"
               /\ world.root \in DOMAIN sharedCache)
                  => \A o \in DOMAIN runs \ {r} : ~QueriesAhead(o) ]_vars

(***************************************************************************)
(* The two variants of calculateRisk                                       *)
(***************************************************************************)
NoFanIn == riskArg.incoming_deps = 0 /\ riskArg.downstream_untested = <<>>

\* C30: the fan-in-aware calculateRisk refines the original one: on every
\* argument with incoming_deps = 0 and no downstream_untested it returns the
\* level of the original classifier (high for circular deps, more than 2 global
\* mutations or more than 5 missing return types; medium for any global
\* mutation, more than 2 missing return types or no test file; else low).
C30_RefinesOriginal ==
    (riskRet # "none" /\ NoFanIn) =>
        /\ riskRet = calculateRiskOriginal(riskArg)
        /\ riskRet = "high" <=>
              \/ riskArg.circular_deps # <<>>
              \/ Len(riskArg.global_mutations) > 2
              \/ riskArg.missing_return_types > 5
        /\ riskRet = "low" <=>
              /\ riskArg.circular_deps = <<>>
              /\ riskArg.global_mutations = <<>>
              /\ riskArg.missing_return_types <= 2
              /\ riskArg.test_coverage.has_test_file

\* no importers, no test file, nothing else: medium under both variants
C30_Witness ==
    /\ riskRet = "medium"
    /\ NoFanIn
    /\ ~riskArg.test_coverage.has_test_file
    /\ riskArg.circular_deps = <<>>
    /\ riskArg.global_mutations = <<>>
    /\ riskArg.missing_return_types = 0
    /\ calculateRiskOriginal(riskArg) = "medium"

(***************************************************************************)
(* Claims about the records of analyzeFiles                                *)
(***************************************************************************)
\* C28: every record of the result is self-consistent: downstream_untested is
\* a subset of incoming_files, incoming_deps is the number of incoming_files
\* with each importer listed once, risk_level is calculateRisk of the final
\* record and briefing is generateBriefing of the final record; and the second
\* pass changes no field of a record other than downstream_untested,
\* risk_level and briefing.
C28_RecordsConsistent ==
    /\ [](\A r \in ResultRecords :
            /\ Range(r.downstream_untested) \subseteq Range(r.incoming_files)
            /\ r.incoming_deps = Len(r.incoming_files)
            /\ Cardinality(Range(r.incoming_files)) = Len(r.incoming_files)
            /\ r.risk_level = calculateRisk(r)
            /\ r.briefing = generateBriefing(r))
    /\ [][ pc = "second_pass" =>
            /\ Len(analyses') = Len(analyses)
            /\ \A k \in 1..Len(analyses) :
                  /\ OwnFacts(analyses'[k]) = OwnFacts(analyses[k])
                  /\ k # idx => analyses'[k] = analyses[k] ]_vars

\* src/hub.ts has four importers of which three are untested: its record lists
\* the three, is high on them and says so in its briefing
C28_Witness ==
    /\ RunDone
    /\ \E r \in ResultRecords :
        /\ r.file = SrcHubTs
        /\ r.incoming_deps = 4
        /\ Len(r.downstream_untested) = 3
        /\ r.risk_level = "high"
        /\ \E i \in 1..Len(r.briefing) : r.briefing[i].kind = "downstream without tests"

\* C29: the second pass never lowers a risk level: a record's level after it is
\* at least its first-pass level in the order low < medium < high, and the only
\* change it makes is to raise a file to high, when incoming_deps > 3 and more
\* than 2 of its importers are untested.
C29_SecondPassOnlyRaises ==
    [][ pc = "second_pass" =>
            LET before == analyses[idx]
                after == analyses'[idx]
            IN  /\ LevelRank(after.risk_level) <= LevelRank(before.risk_level)
                /\ after.risk_level # before.risk_level =>
                      /\ after.risk_level = "high"
                      /\ after.incoming_deps > 3
                      /\ Len(after.downstream_untested) > 2 ]_vars

\* the second pass has just raised the first record from low to high
C29_Witness ==
    /\ pc \in {"second_pass", "finish"}
    /\ Len(analyses) = 2
    /\ analyses[1].risk_level = "high"
    /\ calculateRisk([analyses[1] EXCEPT !.downstream_untested = <<>>]) = "low"
    /\ analyses[1].incoming_deps > 3
    /\ Len(analyses[1].downstream_untested) > 2

====
